---- MODULE Spec2Model ----
(***************************************************************************)
(* st_read_multi: a DuckDB table function that scans several GeoJSON,      *)
(* GeoPackage or Shapefile sources as one stream of rows.                  *)
(*                                                                         *)
(* bind   (src/src/lib.rs 49-178)  opens every matched file, infers and    *)
(*        validates the schemas and declares the output columns;           *)
(* func   (src/src/lib.rs 186-471) is one step of the scan: it fills one   *)
(*        data chunk of at most VECTOR_SIZE rows and moves the cursor.     *)
(*                                                                         *)
(* Rows are kept run-length encoded: a run [n |-> k, row |-> r] stands for *)
(* k consecutive equal rows r.  A row is identified by the index of its    *)
(* source and its index in the source; a slice of a source is the chunk    *)
(* [src, lo, len].  The per-row code of a step maps equal rows to equal    *)
(* output rows, so the vectors of a chunk are run-length encoded as well.  *)
(***************************************************************************)
EXTENDS Integers, Sequences, FiniteSets, TLC

VARIABLES
    format,          \* "GeoJson" | "Gpkg" | "Shapefile": the extension of the matched paths
    files,           \* the matched files, in glob order (the input of bind)
    layer_param,     \* the named parameter "layer" of the call (NoLayer when absent)
    bind_state,      \* "unbound" | "ok" | "error"
    bind_error,      \* the error bind returned (NoError when none)
    sources,         \* bind data: the data sources, in discovery order
    column_specs,    \* bind data: the unified schema
    result_columns,  \* the columns declared with add_result_column, in order
    cursor,          \* init data: [source_idx, offset]
    output,          \* the data chunk the last step filled
    step_result,     \* "none" | "ok" | "error" | "panic": how the last step returned
    step_start,      \* the cursor at the start of the last step
    cursor_writes,   \* history: the values the last step gave the cursor, in order
    reads,           \* history: the slices of sources the steps have read, in order
    emitted,         \* history: the non-empty batches the host got before the first empty one
    scan,            \* "running" | "done" (the host got an empty batch) | "failed"
    wkb_in,          \* the argument of the last gpkg_geometry_to_wkb call checked alone
    wkb_out,         \* its result
    cursor_lock,     \* init data: the Mutex around the cursor, [holder, poisoned]
    thread,          \* per host thread: where its call of func is, and the cursor it read
    steps            \* history: the calls that read the cursor before its end, in order

vars == << format, files, layer_param, bind_state, bind_error, sources, column_specs,
           result_columns, cursor, output, step_result, step_start, cursor_writes, reads,
           emitted, scan, wkb_in, wkb_out, cursor_lock, thread, steps >>

-----------------------------------------------------------------------------
(* Program constants *)

VECTOR_SIZE == 2048

COLUMN_NAME_FILENAME == ".filename"

COLUMN_NAME_LAYER == ".layer"

\* the number of features parse_and_split samples
SampleSize == 100

-----------------------------------------------------------------------------
(* Bounds of the model *)

\* the most files a call matches
MaxFiles == 3

\* sources hold up to MaxFullBatches * VECTOR_SIZE + 1 rows
MaxFullBatches == 1

\* the longest WKB payload after the GeoPackage header and envelope
MaxPayload == 2

\* the most runs of equal features in a GeoJSON file of the sampling scenarios
MaxRuns == 3

\* the most threads from which the host calls func
MaxThreads == 2

-----------------------------------------------------------------------------
(* Values *)

NoError == [kind |-> "none", path |-> 0, what |-> "", index |-> 0]

NoLayer == "<none>"

\* Mutex::new(Cursor::new()): held by no thread (0), not poisoned
Unlocked == [holder |-> 0, poisoned |-> FALSE]

\* the host threads that call func
Threads == 1..MaxThreads

\* a thread outside func
Idle == [pc |-> "idle", seen |-> [source_idx |-> 0, offset |-> 0], result |-> "none"]

Formats == {"GeoJson", "Gpkg", "Shapefile"}

Min(a, b) == IF a <= b THEN a ELSE b

\* String::cmp on the column names the model uses: their byte-wise order
NameOrder == << ".filename", ".layer", "fid", "geom", "geometry", "val1", "val2", "val3" >>

NameRank(name) == CHOOSE i \in 1..Len(NameOrder) : NameOrder[i] = name

NameLess(a, b) == NameRank(a) < NameRank(b)

-----------------------------------------------------------------------------
(* Run-length encoded vectors: Vec::len, slicing, iteration *)

RECURSIVE NumRows(_)
NumRows(runs) ==
    IF runs = << >> THEN 0 ELSE Head(runs).n + NumRows(Tail(runs))

RECURSIVE Drop(_, _)
Drop(runs, k) ==
    IF k = 0 \/ runs = << >> THEN runs
    ELSE IF Head(runs).n <= k THEN Drop(Tail(runs), k - Head(runs).n)
    ELSE << [Head(runs) EXCEPT !.n = @ - k] >> \o Tail(runs)

RECURSIVE Take(_, _)
Take(runs, k) ==
    IF k = 0 \/ runs = << >> THEN << >>
    ELSE IF Head(runs).n <= k
         THEN << Head(runs) >> \o Take(Tail(runs), k - Head(runs).n)
    ELSE << [Head(runs) EXCEPT !.n = k] >>

\* &v[lo..hi], for lo <= hi <= v.len()
Slice(runs, lo, hi) == Take(Drop(runs, lo), hi - lo)


-----------------------------------------------------------------------------
(* types.rs: ColumnType, ColumnSpec; utils.rs: validate_schema *)

ColumnTypes == {"Boolean", "Varchar", "Double", "Integer", "Geometry"}

ColumnSpec(name, column_type) == [name |-> name, column_type |-> column_type]

\* impl From<ColumnType> for LogicalTypeHandle
LogicalType(column_type) ==
    CASE column_type = "Boolean" -> "Boolean"
      [] column_type = "Double" -> "Double"
      [] column_type = "Integer" -> "Integer"
      [] column_type = "Varchar" -> "Varchar"
      [] column_type = "Geometry" -> "Blob"

Ok(value) == [ok |-> TRUE, value |-> value, error |-> NoError]

Err(error) == [ok |-> FALSE, value |-> << >>, error |-> error]

SchemaMismatch(path, what, index) ==
    [kind |-> "SchemaMismatch", path |-> path, what |-> what, index |-> index]

OtherError(kind, path) == [kind |-> kind, path |-> path, what |-> "", index |-> 0]

\* the first index at which the two schemas differ in name or type, 0 when none
\* (the zip stops at the shorter list)
FirstDifference(existing_specs, new_specs) ==
    LET n == Min(Len(existing_specs), Len(new_specs))
        bad == {i \in 1..n : existing_specs[i] # new_specs[i]}
    IN  IF bad = {} THEN 0 ELSE CHOOSE i \in bad : \A j \in bad : i <= j

\* mutant: the number of columns is not compared
ColumnCountDiffers_Skipped(existing_specs, new_specs) == FALSE

\* utils.rs 37: `existing_specs.len() != new_specs.len()`
ColumnCountDiffers(existing_specs, new_specs) == Len(existing_specs) # Len(new_specs)

validate_schema(existing_specs, new_specs, file_path) ==
    IF ColumnCountDiffers(existing_specs, new_specs)
    THEN Err(SchemaMismatch(file_path, "count", 0))
    ELSE LET i == FirstDifference(existing_specs, new_specs)
         IN  IF i = 0 THEN Ok(<< >>)
             ELSE IF existing_specs[i].name # new_specs[i].name
                  THEN Err(SchemaMismatch(file_path, "name", i - 1))
                  ELSE Err(SchemaMismatch(file_path, "type", i - 1))

\* Vec::sort_by(|a, b| a.name.cmp(&b.name)): a stable sort by name
RECURSIVE InsertByName(_, _)
InsertByName(sorted, spec) ==
    IF sorted = << >> THEN << spec >>
    ELSE IF NameLess(spec.name, Head(sorted).name) THEN << spec >> \o sorted
    ELSE << Head(sorted) >> \o InsertByName(Tail(sorted), spec)

RECURSIVE InsertAll(_, _)
InsertAll(sorted, specs) ==
    IF specs = << >> THEN sorted
    ELSE InsertAll(InsertByName(sorted, Head(specs)), Tail(specs))

SortByName(specs) == InsertAll(<< >>, specs)

-----------------------------------------------------------------------------
(* geojson.rs *)

JsonKinds == {"null", "bool", "number", "string", "array", "object"}

\* impl TryFrom<&serde_json::Value> for ColumnType
JsonColumnType(value) ==
    CASE value.kind = "bool" -> Ok("Boolean")
      [] value.kind = "number" -> Ok("Double")
      [] value.kind = "string" -> Ok("Varchar")
      [] OTHER -> Err(OtherError("UnsupportedType", 0))

HasKey(map, key) == \E i \in 1..Len(map) : map[i].name = key

\* mutant: a later value replaces the type an earlier one gave the column
OrInsert_Overwrites(map, key, column_type) ==
    IF \E i \in 1..Len(map) : map[i].name = key
    THEN [i \in 1..Len(map) |-> IF map[i].name = key THEN ColumnSpec(key, column_type)
                                                       ELSE map[i]]
    ELSE Append(map, ColumnSpec(key, column_type))

\* property_type_map.entry(key).or_insert(column_type); the map is kept as the
\* list of its entries (the keys are unique, and the list is sorted before use)
OrInsert(map, key, column_type) ==
    IF HasKey(map, key) THEN map ELSE Append(map, ColumnSpec(key, column_type))

\* the inner loop of the sampling: the properties of one feature
RECURSIVE SampleProperties(_, _)
SampleProperties(properties, map) ==
    IF properties = << >> THEN Ok(map)
    ELSE LET p == Head(properties)
         IN  IF p.value.kind = "null" THEN SampleProperties(Tail(properties), map)
             ELSE LET t == JsonColumnType(p.value)
                  IN  IF ~t.ok THEN t
                      ELSE SampleProperties(Tail(properties), OrInsert(map, p.key, t.value))

\* properties_iter of a feature: nothing when it has no properties object
PropertiesIter(feature) ==
    IF feature.has_properties THEN feature.properties ELSE << >>

\* the outer loop of the sampling; a run of equal features changes the map as its
\* first feature does
RECURSIVE SampleFeatures(_, _)
SampleFeatures(runs, map) ==
    IF runs = << >> THEN Ok(map)
    ELSE LET r == SampleProperties(PropertiesIter(Head(runs).row), map)
         IN  IF ~r.ok THEN r ELSE SampleFeatures(Tail(runs), r.value)

\* mutant: the columns are left in the order the map gives them
GeoJsonColumnOrder_Unsorted(map) == map

\* geojson.rs 65-71: the entries of the map, sorted by name
GeoJsonColumnOrder(map) == SortByName(map)

\* GeoJsonDataSource::parse_and_split: Ok(<<data_sources, column_specs>>)
parse_and_split(file) ==
    IF ~file.readable THEN Err(OtherError("Io", file.path))
    ELSE IF ~file.feature_collection THEN Err(OtherError("NotFeatureCollection", file.path))
    ELSE LET sample_size == Min(SampleSize, NumRows(file.features))
             sampled == SampleFeatures(Slice(file.features, 0, sample_size), << >>)
         IN  IF ~sampled.ok THEN Err(OtherError("UnsupportedType", file.path))
             ELSE Ok([data_sources |-> << [features |-> file.features,
                                          filename |-> file.path] >>,
                      column_specs |-> GeoJsonColumnOrder(sampled.value)])

-----------------------------------------------------------------------------
(* gpkg.rs *)

\* the type names of the match of get_column_specs, and two it does not hold
SqlTypeNames ==
    << "TINYINT", "SMALLINT", "MEDIUMINT", "INT", "INTEGER", "DOUBLE", "FLOAT", "REAL",
       "TEXT", "BOOLEAN", "GEOMETRY", "POINT", "LINESTRING", "POLYGON", "MULTIPOINT",
       "MULTILINESTRING", "MULTIPOLYGON", "GEOMETRYCOLLECTION", "BLOB", "DATETIME" >>

\* the same names in lower case
LowerCased ==
    << "tinyint", "smallint", "mediumint", "int", "integer", "double", "float", "real",
       "text", "boolean", "geometry", "point", "linestring", "polygon", "multipoint",
       "multilinestring", "multipolygon", "geometrycollection", "blob", "datetime" >>

\* str::to_uppercase on the declared types the model uses
ToUppercase(s) ==
    IF \E i \in 1..Len(LowerCased) : LowerCased[i] = s
    THEN SqlTypeNames[CHOOSE i \in 1..Len(LowerCased) : LowerCased[i] = s]
    ELSE IF s = "Point" THEN "POINT"
    ELSE s

\* the match of get_column_specs on the upper-cased declared type
SqlColumnType(column_type_str) ==
    LET t == ToUppercase(column_type_str)
    IN  CASE t \in {"TINYINT", "SMALLINT", "MEDIUMINT", "INT", "INTEGER"} -> Ok("Integer")
          [] t \in {"DOUBLE", "FLOAT", "REAL"} -> Ok("Double")
          [] t = "TEXT" -> Ok("Varchar")
          [] t = "BOOLEAN" -> Ok("Boolean")
          [] t \in {"GEOMETRY", "POINT", "LINESTRING", "POLYGON", "MULTIPOINT",
                    "MULTILINESTRING", "MULTIPOLYGON", "GEOMETRYCOLLECTION"} -> Ok("Geometry")
          [] OTHER -> Err(OtherError("InvalidColumnType", 0))

\* SELECT name, type FROM pragma_table_info(table) WHERE name != 'fid'
TableInfo(columns) == SelectSeq(columns, LAMBDA c : c.name # "fid")

RECURSIVE MapColumnTypes(_)
MapColumnTypes(columns) ==
    IF columns = << >> THEN Ok(<< >>)
    ELSE LET t == SqlColumnType(Head(columns).type)
             rest == MapColumnTypes(Tail(columns))
         IN  IF ~t.ok THEN t
             ELSE IF ~rest.ok THEN rest
             ELSE Ok(<< ColumnSpec(Head(columns).name, t.value) >> \o rest.value)

\* the order in which get_column_specs returns the columns: that of the query
GpkgColumnOrder(specs) == specs

\* Gpkg::get_column_specs; a table that does not exist has no column
get_column_specs(gpkg, table_name) ==
    LET found == SelectSeq(gpkg.tables, LAMBDA t : t.table_name = table_name)
        columns == IF found = << >> THEN << >> ELSE TableInfo(found[1].columns)
        mapped == MapColumnTypes(columns)
    IN  IF mapped.ok THEN Ok(GpkgColumnOrder(mapped.value)) ELSE mapped

\* Gpkg::list_layers: SELECT table_name FROM gpkg_contents
list_layers(gpkg) ==
    IF ~gpkg.has_contents THEN Err(OtherError("Sql", gpkg.path))
    ELSE Ok([i \in 1..Len(gpkg.contents) |-> gpkg.contents[i]])

TableRows(gpkg, table_name) ==
    LET found == SelectSeq(gpkg.tables, LAMBDA t : t.table_name = table_name)
    IN  IF found = << >> THEN << >> ELSE found[1].rows

TableExists(gpkg, table_name) == \E i \in 1..Len(gpkg.tables) : gpkg.tables[i].table_name = table_name

\* the loop of read_layer_data over the layers
RECURSIVE LayerSources(_, _)
LayerSources(gpkg, layers) ==
    IF layers = << >> THEN Ok(<< >>)
    ELSE LET layer == Head(layers)
             specs == get_column_specs(gpkg, layer)
         IN  IF ~specs.ok THEN Err(OtherError("InvalidColumnType", gpkg.path))
             \* prepare("SELECT <columns> FROM <layer>") fails for a missing table
             ELSE IF ~TableExists(gpkg, layer) \/ specs.value = << >>
                  THEN Err(OtherError("Sql", gpkg.path))
             ELSE LET rest == LayerSources(gpkg, Tail(layers))
                  IN  IF ~rest.ok THEN rest
                      ELSE Ok(<< [filename |-> gpkg.path, layer_name |-> layer,
                                  column_specs |-> specs.value,
                                  rows |-> TableRows(gpkg, layer)] >> \o rest.value)

\* mutant: the layer parameter is not looked at
list_data_sources_IgnoresLayer(gpkg, layer_name) ==
    IF ~gpkg.readable THEN Err(OtherError("Io", gpkg.path))
    ELSE IF ~list_layers(gpkg).ok THEN list_layers(gpkg)
    ELSE LayerSources(gpkg, list_layers(gpkg).value)

\* Gpkg::new and the data sources of one file (read_layer_data; lib.rs names it
\* list_data_sources)
list_data_sources(gpkg, layer_name) ==
    IF ~gpkg.readable THEN Err(OtherError("Io", gpkg.path))
    ELSE LET layers == IF layer_name # NoLayer THEN Ok(<< layer_name >>) ELSE list_layers(gpkg)
         IN  IF ~layers.ok THEN layers ELSE LayerSources(gpkg, layers.value)

-----------------------------------------------------------------------------
(* shapefile/encoding.rs *)

\* a str is a sequence of chars; a char is a string of one character, or one of
\* these names: the whitespace chars space, line feed, carriage return and tab,
\* and U+FEFF
WhiteSpace == {"<sp>", "<lf>", "<cr>", "<tab>"}

Bom == "<bom>"

LowerLetters ==
    << "a", "b", "c", "d", "e", "f", "g", "h", "i", "j", "k", "l", "m", "n", "o", "p", "q",
       "r", "s", "t", "u", "v", "w", "x", "y", "z" >>

UpperLetters ==
    << "A", "B", "C", "D", "E", "F", "G", "H", "I", "J", "K", "L", "M", "N", "O", "P", "Q",
       "R", "S", "T", "U", "V", "W", "X", "Y", "Z" >>

\* str::trim: without the leading and the trailing whitespace
RECURSIVE TrimStart(_)
TrimStart(s) == IF s # << >> /\ Head(s) \in WhiteSpace THEN TrimStart(Tail(s)) ELSE s

RECURSIVE TrimEnd(_)
TrimEnd(s) ==
    IF s # << >> /\ s[Len(s)] \in WhiteSpace THEN TrimEnd(SubSeq(s, 1, Len(s) - 1)) ELSE s

Trim(s) == TrimEnd(TrimStart(s))

\* str::trim_start_matches(c): without every leading c
RECURSIVE TrimStartMatches(_, _)
TrimStartMatches(s, c) ==
    IF s # << >> /\ Head(s) = c THEN TrimStartMatches(Tail(s), c) ELSE s

\* char::to_ascii_uppercase
CharToAsciiUppercase(c) ==
    IF \E i \in 1..Len(LowerLetters) : LowerLetters[i] = c
    THEN UpperLetters[CHOOSE i \in 1..Len(LowerLetters) : LowerLetters[i] = c]
    ELSE c

\* str::to_ascii_uppercase
ToAsciiUppercase(s) == [i \in 1..Len(s) |-> CharToAsciiUppercase(s[i])]

\* the arms of the match of parse_encoding_label, each pattern with the
\* encoding_rs constant of its arm, in the order and the spelling of the code
LabelTable ==
    << [label |-> << "U", "T", "F", "-", "8" >>, encoding |-> "UTF_8"],
       [label |-> << "6", "5", "0", "0", "1" >>, encoding |-> "UTF_8"],
       [label |-> << "9", "3", "2" >>, encoding |-> "SHIFT_JIS"],
       [label |-> << "C", "P", "9", "3", "2" >>, encoding |-> "SHIFT_JIS"],
       [label |-> << "S", "H", "I", "F", "T", "_", "J", "I", "S" >>, encoding |-> "SHIFT_JIS"],
       [label |-> << "S", "J", "I", "S" >>, encoding |-> "SHIFT_JIS"],
       [label |-> << "9", "3", "6" >>, encoding |-> "GBK"],
       [label |-> << "C", "P", "9", "3", "6" >>, encoding |-> "GBK"],
       [label |-> << "G", "B", "K" >>, encoding |-> "GBK"],
       [label |-> << "9", "4", "9" >>, encoding |-> "EUC_KR"],
       [label |-> << "C", "P", "9", "4", "9" >>, encoding |-> "EUC_KR"],
       [label |-> << "E", "U", "C", "-", "K", "R" >>, encoding |-> "EUC_KR"],
       [label |-> << "B", "I", "G", "5" >>, encoding |-> "BIG5"],
       [label |-> << "B", "I", "G", "-", "5" >>, encoding |-> "BIG5"],
       [label |-> << "l", "a", "t", "i", "n", "1" >>, encoding |-> "WINDOWS_1252"],
       [label |-> << "8", "6", "6" >>, encoding |-> "IBM866"],
       [label |-> << "C", "P", "8", "6", "6" >>, encoding |-> "IBM866"],
       [label |-> << "8", "7", "4" >>, encoding |-> "WINDOWS_874"],
       [label |-> << "C", "P", "8", "7", "4" >>, encoding |-> "WINDOWS_874"],
       [label |-> << "1", "2", "5", "5" >>, encoding |-> "WINDOWS_1255"],
       [label |-> << "C", "P", "1", "2", "5", "5" >>, encoding |-> "WINDOWS_1255"],
       [label |-> << "1", "2", "5", "6" >>, encoding |-> "WINDOWS_1256"],
       [label |-> << "C", "P", "1", "2", "5", "6" >>, encoding |-> "WINDOWS_1256"],
       [label |-> << "1", "2", "5", "0" >>, encoding |-> "WINDOWS_1250"],
       [label |-> << "C", "P", "1", "2", "5", "0" >>, encoding |-> "WINDOWS_1250"],
       [label |-> << "1", "2", "5", "1" >>, encoding |-> "WINDOWS_1251"],
       [label |-> << "C", "P", "1", "2", "5", "1" >>, encoding |-> "WINDOWS_1251"],
       [label |-> << "A", "N", "S", "I", "<sp>", "1", "2", "5", "1" >>, encoding |-> "WINDOWS_1251"],
       [label |-> << "1", "2", "5", "2" >>, encoding |-> "WINDOWS_1252"],
       [label |-> << "C", "P", "1", "2", "5", "2" >>, encoding |-> "WINDOWS_1252"],
       [label |-> << "1", "2", "5", "4" >>, encoding |-> "WINDOWS_1254"],
       [label |-> << "C", "P", "1", "2", "5", "4" >>, encoding |-> "WINDOWS_1254"],
       [label |-> << "1", "2", "5", "3" >>, encoding |-> "WINDOWS_1253"],
       [label |-> << "C", "P", "1", "2", "5", "3" >>, encoding |-> "WINDOWS_1253"],
       [label |-> << "I", "S", "O", "-", "8", "8", "5", "9", "-", "1" >>, encoding |-> "WINDOWS_1252"],
       [label |-> << "8", "8", "5", "9", "-", "1" >>, encoding |-> "WINDOWS_1252"],
       [label |-> << "8", "8", "5", "9", "1" >>, encoding |-> "WINDOWS_1252"],
       [label |-> << "I", "S", "O", "-", "8", "8", "5", "9", "-", "2" >>, encoding |-> "ISO_8859_2"],
       [label |-> << "8", "8", "5", "9", "-", "2" >>, encoding |-> "ISO_8859_2"],
       [label |-> << "8", "8", "5", "9", "2" >>, encoding |-> "ISO_8859_2"],
       [label |-> << "I", "S", "O", "-", "8", "8", "5", "9", "-", "3" >>, encoding |-> "ISO_8859_3"],
       [label |-> << "8", "8", "5", "9", "-", "3" >>, encoding |-> "ISO_8859_3"],
       [label |-> << "8", "8", "5", "9", "3" >>, encoding |-> "ISO_8859_3"],
       [label |-> << "I", "S", "O", "-", "8", "8", "5", "9", "-", "4" >>, encoding |-> "ISO_8859_4"],
       [label |-> << "8", "8", "5", "9", "-", "4" >>, encoding |-> "ISO_8859_4"],
       [label |-> << "8", "8", "5", "9", "4" >>, encoding |-> "ISO_8859_4"],
       [label |-> << "I", "S", "O", "-", "8", "8", "5", "9", "-", "5" >>, encoding |-> "ISO_8859_5"],
       [label |-> << "8", "8", "5", "9", "-", "5" >>, encoding |-> "ISO_8859_5"],
       [label |-> << "8", "8", "5", "9", "5" >>, encoding |-> "ISO_8859_5"],
       [label |-> << "I", "S", "O", "-", "8", "8", "5", "9", "-", "6" >>, encoding |-> "ISO_8859_6"],
       [label |-> << "8", "8", "5", "9", "-", "6" >>, encoding |-> "ISO_8859_6"],
       [label |-> << "8", "8", "5", "9", "6" >>, encoding |-> "ISO_8859_6"],
       [label |-> << "I", "S", "O", "-", "8", "8", "5", "9", "-", "7" >>, encoding |-> "ISO_8859_7"],
       [label |-> << "8", "8", "5", "9", "-", "7" >>, encoding |-> "ISO_8859_7"],
       [label |-> << "8", "8", "5", "9", "7" >>, encoding |-> "ISO_8859_7"],
       [label |-> << "I", "S", "O", "-", "8", "8", "5", "9", "-", "8" >>, encoding |-> "ISO_8859_8"],
       [label |-> << "8", "8", "5", "9", "-", "8" >>, encoding |-> "ISO_8859_8"],
       [label |-> << "8", "8", "5", "9", "8" >>, encoding |-> "ISO_8859_8"],
       [label |-> << "I", "S", "O", "-", "8", "8", "5", "9", "-", "9" >>, encoding |-> "WINDOWS_1254"],
       [label |-> << "8", "8", "5", "9", "-", "9" >>, encoding |-> "WINDOWS_1254"],
       [label |-> << "8", "8", "5", "9", "9" >>, encoding |-> "WINDOWS_1254"],
       [label |-> << "I", "S", "O", "-", "8", "8", "5", "9", "-", "1", "0" >>, encoding |-> "ISO_8859_10"],
       [label |-> << "8", "8", "5", "9", "-", "1", "0" >>, encoding |-> "ISO_8859_10"],
       [label |-> << "8", "8", "5", "9", "1", "0" >>, encoding |-> "ISO_8859_10"],
       [label |-> << "I", "S", "O", "-", "8", "8", "5", "9", "-", "1", "3" >>, encoding |-> "ISO_8859_13"],
       [label |-> << "8", "8", "5", "9", "-", "1", "3" >>, encoding |-> "ISO_8859_13"],
       [label |-> << "8", "8", "5", "9", "1", "3" >>, encoding |-> "ISO_8859_13"],
       [label |-> << "I", "S", "O", "-", "8", "8", "5", "9", "-", "1", "4" >>, encoding |-> "ISO_8859_14"],
       [label |-> << "8", "8", "5", "9", "-", "1", "4" >>, encoding |-> "ISO_8859_14"],
       [label |-> << "8", "8", "5", "9", "1", "4" >>, encoding |-> "ISO_8859_14"],
       [label |-> << "I", "S", "O", "-", "8", "8", "5", "9", "-", "1", "5" >>, encoding |-> "ISO_8859_15"],
       [label |-> << "8", "8", "5", "9", "-", "1", "5" >>, encoding |-> "ISO_8859_15"],
       [label |-> << "8", "8", "5", "9", "1", "5" >>, encoding |-> "ISO_8859_15"],
       [label |-> << "I", "S", "O", "-", "8", "8", "5", "9", "-", "1", "6" >>, encoding |-> "ISO_8859_16"],
       [label |-> << "8", "8", "5", "9", "-", "1", "6" >>, encoding |-> "ISO_8859_16"],
       [label |-> << "8", "8", "5", "9", "1", "6" >>, encoding |-> "ISO_8859_16"] >>

\* the arm a str matches: the first whose pattern equals it; 0 for `_`
MatchedArm(upper) ==
    IF \E i \in 1..Len(LabelTable) : LabelTable[i].label = upper
    THEN CHOOSE i \in 1..Len(LabelTable) :
            /\ LabelTable[i].label = upper
            /\ \A j \in 1..(i - 1) : LabelTable[j].label # upper
    ELSE 0

\* parse_encoding_label
parse_encoding_label(label) ==
    LET upper == ToAsciiUppercase(TrimStartMatches(Trim(label), Bom))
        arm == MatchedArm(upper)
    IN  IF arm = 0 THEN [some |-> FALSE, value |-> << >>]
        ELSE [some |-> TRUE, value |-> LabelTable[arm].encoding]

\* infer_encoding_from_cpg: None without the file and for a file that
\* read_to_string cannot read
infer_encoding_from_cpg(cpg) ==
    IF ~cpg.exists THEN [some |-> FALSE, value |-> << >>]
    ELSE IF ~cpg.readable THEN [some |-> FALSE, value |-> << >>]
    ELSE parse_encoding_label(cpg.content)

\* open_dbf_reader: the decoder of the reader it opens
open_dbf_reader(cpg_encoding) ==
    IF cpg_encoding.some THEN cpg_encoding.value ELSE "default"

-----------------------------------------------------------------------------
(* shapefile/datasource.rs *)

\* impl From<dbase::FieldType> for ColumnType
FieldColumnType(field_type) ==
    CASE field_type = "Logical" -> "Boolean"
      [] field_type = "Integer" -> "Integer"
      [] field_type \in {"Numeric", "Float", "Currency", "Double"} -> "Double"
      [] field_type = "DateTime" -> "Double"
      [] field_type \in {"Character", "Memo"} -> "Varchar"
      [] field_type = "Date" -> "Varchar"

FieldSpecs(fields) ==
    [i \in 1..Len(fields) |-> ColumnSpec(fields[i].name, FieldColumnType(fields[i].field_type))]

ShapefileColumnOrder(specs) == SortByName(specs)

\* shape_to_wkb: None for a null shape, the WKB of the shape otherwise
shape_to_wkb(shape) ==
    CASE shape = "NullShape" -> Ok([some |-> FALSE, wkb |-> << >>])
      [] shape = "Unconvertible" -> Err(OtherError("Shape", 0))
      [] OTHER -> Ok([some |-> TRUE, wkb |-> << shape >>])

ShapefileRow(rec) == [geometry |-> shape_to_wkb(rec.shape).value, record |-> rec.record]

\* ShapefileDataSource::new
ShapefileDataSource_new(file) ==
    IF ~file.readable THEN Err(OtherError("Io", file.path))
    ELSE IF \E i \in 1..Len(file.records) : ~shape_to_wkb(file.records[i].row.shape).ok
         THEN Err(OtherError("Shape", file.path))
    ELSE Ok([rows |-> [i \in 1..Len(file.records) |->
                         [n |-> file.records[i].n, row |-> ShapefileRow(file.records[i].row)]],
             filename |-> file.path,
             column_specs |-> ShapefileColumnOrder(FieldSpecs(file.fields)),
             inferred_cpg_encoding |-> infer_encoding_from_cpg(file.cpg),
             decoder |-> open_dbf_reader(infer_encoding_from_cpg(file.cpg))])

-----------------------------------------------------------------------------
(* lib.rs: StReadMultiVTab::bind *)

None == [some |-> FALSE, value |-> << >>]

Some(value) == [some |-> TRUE, value |-> value]

\* `if let Some(existing_specs) = &column_specs { validate_schema(..)? } else { insert }`
ValidateOrInsert(specs, local, path) ==
    IF specs.some
    THEN LET v == validate_schema(specs.value, local, path)
         IN  IF v.ok THEN Ok(specs) ELSE v
    ELSE Ok(Some(local))

BindData(srcs, specs) == [sources |-> srcs, column_specs |-> specs]

\* lib.rs 66-78
RECURSIVE GeoJsonLoop(_, _, _)
GeoJsonValidated(paths, srcs, parsed, v) ==
    IF ~v.ok THEN v ELSE GeoJsonLoop(Tail(paths), srcs \o parsed.data_sources, v.value)

\* mutant: a file that cannot be parsed is skipped
GeoJsonParsed_SkipsFile(paths, srcs, specs, parsed) ==
    IF ~parsed.ok THEN GeoJsonLoop(Tail(paths), srcs, specs)
    ELSE GeoJsonValidated(paths, srcs, parsed.value,
                          ValidateOrInsert(specs, parsed.value.column_specs, Head(paths).path))

GeoJsonParsed(paths, srcs, specs, parsed) ==
    IF ~parsed.ok THEN parsed
    ELSE GeoJsonValidated(paths, srcs, parsed.value,
                          ValidateOrInsert(specs, parsed.value.column_specs, Head(paths).path))

GeoJsonLoop(paths, srcs, specs) ==
    IF paths = << >> THEN Ok(BindData(srcs, specs))
    ELSE GeoJsonParsed(paths, srcs, specs, parse_and_split(Head(paths)))

\* lib.rs 111-120: the data sources of one file
RECURSIVE GpkgSourceLoop(_, _, _, _)
GpkgSourceValidated(list, path, srcs, v) ==
    IF ~v.ok THEN v ELSE GpkgSourceLoop(Tail(list), path, Append(srcs, Head(list)), v.value)

GpkgSourceLoop(list, path, srcs, specs) ==
    IF list = << >> THEN Ok(BindData(srcs, specs))
    ELSE GpkgSourceValidated(list, path, srcs,
                             ValidateOrInsert(specs, Head(list).column_specs, path))

\* lib.rs 108-121
RECURSIVE GpkgLoop(_, _, _, _)
GpkgFileDone(paths, layer_name, r) ==
    IF ~r.ok THEN r
    ELSE GpkgLoop(Tail(paths), layer_name, r.value.sources, r.value.column_specs)

GpkgFileListed(paths, layer_name, srcs, specs, list) ==
    IF ~list.ok THEN list
    ELSE GpkgFileDone(paths, layer_name,
                      GpkgSourceLoop(list.value, Head(paths).path, srcs, specs))

GpkgLoop(paths, layer_name, srcs, specs) ==
    IF paths = << >> THEN Ok(BindData(srcs, specs))
    ELSE GpkgFileListed(paths, layer_name, srcs, specs,
                        list_data_sources(Head(paths), layer_name))

\* lib.rs 148-159
RECURSIVE ShapefileLoop(_, _, _)
ShapefileValidated(paths, srcs, source, v) ==
    IF ~v.ok THEN v ELSE ShapefileLoop(Tail(paths), Append(srcs, source), v.value)

ShapefileOpened(paths, srcs, specs, source) ==
    IF ~source.ok THEN source
    ELSE ShapefileValidated(paths, srcs, source.value,
                            ValidateOrInsert(specs, source.value.column_specs,
                                             Head(paths).path))

ShapefileLoop(paths, srcs, specs) ==
    IF paths = << >> THEN Ok(BindData(srcs, specs))
    ELSE ShapefileOpened(paths, srcs, specs, ShapefileDataSource_new(Head(paths)))

ResultColumn(name, type) == [name |-> name, type |-> type]

SpecColumns(specs) ==
    [i \in 1..Len(specs) |-> ResultColumn(specs[i].name, LogicalType(specs[i].column_type))]

\* lib.rs 82-88
GeoJsonResultColumns(specs) ==
    << ResultColumn("geometry", "Blob") >> \o SpecColumns(specs)
        \o << ResultColumn(COLUMN_NAME_FILENAME, "Varchar") >>

\* lib.rs 125-131
GpkgResultColumns(specs) ==
    SpecColumns(specs) \o << ResultColumn(COLUMN_NAME_FILENAME, "Varchar"),
                             ResultColumn(COLUMN_NAME_LAYER, "Varchar") >>

\* lib.rs 163-168
ShapefileResultColumns(specs) ==
    << ResultColumn("geometry", "Blob") >> \o SpecColumns(specs)
        \o << ResultColumn(COLUMN_NAME_FILENAME, "Varchar") >>

\* lib.rs 80-94, 123-137, 161-174: the columns declared and the bind data
Declared(fmt, r) ==
    IF ~r.ok THEN r
    \* column_specs.ok_or("No layers are found")?; the other arms unwrap a Some
    ELSE IF ~r.value.column_specs.some THEN Err(OtherError("NoLayers", 0))
    ELSE Ok([sources |-> r.value.sources,
             column_specs |-> r.value.column_specs.value,
             result_columns |->
                 CASE fmt = "GeoJson" -> GeoJsonResultColumns(r.value.column_specs.value)
                   [] fmt = "Gpkg" -> GpkgResultColumns(r.value.column_specs.value)
                   [] fmt = "Shapefile" -> ShapefileResultColumns(r.value.column_specs.value)])

\* what bind returns: Ok([sources, column_specs, result_columns]) or the error
BindOutcome(fmt, paths, layer_name) ==
    IF paths = << >> THEN Err(OtherError("NoMatch", 0))
    ELSE Declared(fmt, CASE fmt = "GeoJson" -> GeoJsonLoop(paths, << >>, None)
                         [] fmt = "Gpkg" -> GpkgLoop(paths, layer_name, << >>, None)
                         [] fmt = "Shapefile" -> ShapefileLoop(paths, << >>, None))

NewCursor == [source_idx |-> 0, offset |-> 0]

EmptyChunk == [len |-> 0, src |-> 0, lo |-> 0, cells |-> << >>]

\* the state bind and init leave
Bound(r) ==
    /\ bind_state' = IF r.ok THEN "ok" ELSE "error"
    /\ bind_error' = r.error
    /\ sources' = IF r.ok THEN r.value.sources ELSE sources
    /\ column_specs' = IF r.ok THEN r.value.column_specs ELSE column_specs
    /\ result_columns' = IF r.ok THEN r.value.result_columns ELSE result_columns
    /\ cursor' = NewCursor
    /\ UNCHANGED << format, files, layer_param, output, step_result, step_start,
                    cursor_writes, reads, emitted, scan, wkb_in, wkb_out, cursor_lock,
                    thread, steps >>

\* bind, and init on success
Bind ==
    /\ bind_state = "unbound"
    /\ Bound(BindOutcome(format, files, layer_param))

-----------------------------------------------------------------------------
(* gpkg.rs: gpkg_geometry_to_wkb *)

\* flags & 0b00001110
EnvelopeBits(flags) == ((flags \div 2) % 8) * 2

\* mutant: the envelope of code 3 is taken to be as long as that of code 1
EnvelopeSize_Code3Short(flags) ==
    CASE EnvelopeBits(flags) = 0 -> 0
      [] EnvelopeBits(flags) = 2 -> 32
      [] EnvelopeBits(flags) = 4 -> 48
      [] EnvelopeBits(flags) = 6 -> 32
      [] EnvelopeBits(flags) = 8 -> 64
      [] OTHER -> -1

\* the match on the envelope bits: the size of the envelope, -1 for `_`
EnvelopeSize(flags) ==
    CASE EnvelopeBits(flags) = 0 -> 0
      [] EnvelopeBits(flags) = 2 -> 32
      [] EnvelopeBits(flags) = 4 -> 48
      [] EnvelopeBits(flags) = 6 -> 48
      [] EnvelopeBits(flags) = 8 -> 64
      [] OTHER -> -1

HeaderSize(envelope_size) == 8 + envelope_size

\* a slice of b is [panic |-> FALSE, start, bytes]; start = -1 for the static &[];
\* b[3] and &b[offset..] panic out of range
gpkg_geometry_to_wkb(b) ==
    IF Len(b) < 4 THEN [panic |-> TRUE, start |-> 0, bytes |-> << >>]
    ELSE LET flags == b[4]
             envelope_size == EnvelopeSize(flags)
             offset == HeaderSize(envelope_size)
         IN  IF envelope_size < 0 THEN [panic |-> FALSE, start |-> -1, bytes |-> << >>]
             ELSE IF offset > Len(b) THEN [panic |-> TRUE, start |-> 0, bytes |-> << >>]
             ELSE [panic |-> FALSE, start |-> offset, bytes |-> SubSeq(b, offset + 1, Len(b))]

-----------------------------------------------------------------------------
(* lib.rs: the cells a step writes *)

NoValue == [kind |-> "none", int |-> 0, bytes |-> << >>]

Blob(bytes) == [kind |-> "blob", int |-> 0, bytes |-> bytes]

Scalar(kind, int) == [kind |-> kind, int |-> int, bytes |-> << >>]

\* a cell of a vector: written (insert, as_mut_slice()[i] = v), marked NULL
\* (set_null) or left as the chunk came
Unset == [state |-> "unset", v |-> NoValue]

Null == [state |-> "null", v |-> NoValue]

Written(v) == [state |-> "value", v |-> v]

RowOk(row) == [status |-> "ok", row |-> row]

RowFailed(status) == [status |-> status, row |-> << >>]

\* WkbConverter::convert
convert(feature) ==
    CASE feature.geometry = "none" -> [status |-> "panic", wkb |-> << >>]
      [] feature.geometry = "invalid" -> [status |-> "error", wkb |-> << >>]
      [] OTHER -> [status |-> "ok", wkb |-> << feature.geometry >>]

PropertyGet(properties, name) ==
    LET found == SelectSeq(properties, LAMBDA p : p.key = name)
    IN  IF found = << >> THEN None ELSE Some(found[1].value)

\* lib.rs 232-256: one property cell; as_str, as_bool and as_f64 give None for a
\* value of another kind, and unwrap panics on it
GeoJsonPropertyCell(spec, val) ==
    IF val.some /\ val.value.kind # "null"
    THEN CASE spec.column_type = "Varchar" ->
                  IF val.value.kind = "string" THEN RowOk(Written(Scalar("string", val.value.v)))
                  ELSE RowFailed("panic")
           [] spec.column_type = "Boolean" ->
                  IF val.value.kind = "bool" THEN RowOk(Written(Scalar("bool", val.value.v)))
                  ELSE RowFailed("panic")
           [] spec.column_type = "Double" ->
                  IF val.value.kind = "number" THEN RowOk(Written(Scalar("number", val.value.v)))
                  ELSE RowFailed("panic")
           [] OTHER -> RowFailed("panic")
    ELSE RowOk(Null)

\* lib.rs 224-258: the cells of one feature
GeoJsonRow(specs, filename, f) ==
    LET wkb_data == convert(f)
        cells == [i \in 1..Len(specs) |->
                    IF f.has_properties
                    THEN GeoJsonPropertyCell(specs[i], PropertyGet(f.properties, specs[i].name))
                    ELSE RowOk(Unset)]
    IN  IF wkb_data.status # "ok" THEN RowFailed(wkb_data.status)
        ELSE IF \E i \in 1..Len(specs) : cells[i].status # "ok" THEN RowFailed("panic")
        ELSE RowOk([geometry |-> Written(Blob(wkb_data.wkb)),
                    props |-> [i \in 1..Len(specs) |-> cells[i].row],
                    filename |-> Written(Scalar("string", filename))])

\* lib.rs 415-453: one property cell of a Shapefile row
ShapefilePropertyCell(spec, val) ==
    IF ~val.some THEN Null
    ELSE LET t == spec.column_type
             k == val.value.kind
             some == val.value.some
         IN  IF \/ t = "Varchar" /\ k \in {"Character", "Date"} /\ some
                \/ t = "Varchar" /\ k = "Memo"
                \/ t = "Boolean" /\ k = "Logical" /\ some
                \/ t = "Integer" /\ k = "Integer"
                \/ t = "Double" /\ k \in {"Numeric", "Float"} /\ some
                \/ t = "Double" /\ k \in {"Currency", "Double", "DateTime"}
             THEN Written(Scalar(k, val.value.v))
             ELSE Null

\* lib.rs 409-453: the cells of one Shapefile row
ShapefileRowCells(specs, filename, row) ==
    RowOk([geometry |-> IF row.geometry.some THEN Written(Blob(row.geometry.wkb)) ELSE Null,
           props |-> [i \in 1..Len(specs) |->
                        ShapefilePropertyCell(specs[i], PropertyGet(row.record, specs[i].name))],
           filename |-> Written(Scalar("string", filename))])

\* rusqlite row.get::<Option<T>>(col_idx): None for NULL, an error when the stored
\* value is not of a class T reads
RowGet(column_type, stored) ==
    IF stored.kind = "null" THEN Ok(None)
    ELSE IF \/ column_type \in {"Integer", "Boolean"} /\ stored.kind = "integer"
            \/ column_type = "Double" /\ stored.kind \in {"real", "integer"}
            \/ column_type = "Varchar" /\ stored.kind = "text"
            \/ column_type = "Geometry" /\ stored.kind = "blob"
         THEN Ok(Some(stored))
         ELSE Err(OtherError("InvalidColumnType", 0))

\* v as i32: a stored 64-bit integer is its four 16-bit limbs, the lowest first
\* (two's complement); the cast keeps the two lowest
AsI32(limbs) == SubSeq(limbs, 1, 2)

\* the cell the Geometry arm writes
GeometryCell(wkb) == Written(Blob(wkb.bytes))

\* lib.rs 303-350: one cell of a GeoPackage row
GpkgCell(spec, stored) ==
    LET val == RowGet(spec.column_type, stored)
    IN  IF ~val.ok THEN RowFailed("error")
        ELSE IF ~val.value.some THEN RowOk(Null)
        ELSE CASE spec.column_type = "Integer" ->
                      RowOk(Written([kind |-> "integer", int |-> 0, bytes |-> AsI32(stored.bytes)]))
               [] spec.column_type = "Geometry" ->
                      LET wkb == gpkg_geometry_to_wkb(stored.bytes)
                      IN  IF wkb.panic THEN RowFailed("panic") ELSE RowOk(GeometryCell(wkb))
               [] OTHER -> RowOk(Written(stored))

FirstFailure(cells) ==
    LET bad == {i \in 1..Len(cells) : cells[i].status # "ok"}
    IN  IF bad = {} THEN 0 ELSE CHOOSE i \in bad : \A j \in bad : i <= j

\* lib.rs 298-353: the closure fetch_rows calls with every row
GpkgRow(source, row) ==
    LET specs == source.column_specs
        cells == [i \in 1..Len(specs) |-> GpkgCell(specs[i], row[i])]
        bad == FirstFailure(cells)
    IN  IF bad # 0 THEN RowFailed(cells[bad].status)
        ELSE RowOk([props |-> [i \in 1..Len(specs) |-> cells[i].row],
                    filename |-> Written(Scalar("string", source.filename)),
                    layer_name |-> Written(Scalar("string", source.layer_name))])

-----------------------------------------------------------------------------
(* lib.rs: StReadMultiVTab::func *)

\* a `for` loop over rows that writes row after row and stops at the first row
\* whose cells fail: the rows written, and how the loop ended; outs[i] is what
\* the body of the loop does with the rows of runs[i]
WriteRows(outs, runs) ==
    LET bad == FirstFailure(outs)
        n == IF bad = 0 THEN Len(runs) ELSE bad - 1
    IN  [status |-> IF bad = 0 THEN "ok" ELSE outs[bad].status,
         cells |-> [i \in 1..n |-> [n |-> runs[i].n, row |-> outs[i].row]]]

Read(src, lo, len) == [src |-> src, lo |-> lo, len |-> len]

Chunk(src, lo, cells) == [len |-> NumRows(cells), src |-> src, lo |-> lo, cells |-> cells]

\* what one call of func does: the values it gave the cursor (the last of them
\* is the cursor it leaves), the chunk it leaves, how it returns, and the slices
\* of sources it read
Outcome(c, writes, chunk, result, read) ==
    [cursor |-> IF writes = << >> THEN c ELSE writes[Len(writes)], writes |-> writes,
     output |-> chunk, result |-> result, reads |-> read]

\* a step that ends in an error or a panic never reaches set_len
Failed(c, writes, status, src, lo, cells, read) ==
    Outcome(c, writes, [len |-> 0, src |-> src, lo |-> lo, cells |-> cells], status, read)

\* mutant: the terminal check off by one
GeoJsonTerminal_OffByOne(c, srcs) == c.source_idx > Len(srcs)

\* lib.rs 204, 279, 390: `cursor.source_idx >= sources.len()`
GeoJsonTerminal(c, srcs) == c.source_idx >= Len(srcs)

GpkgTerminal(c, srcs) == c.source_idx >= Len(srcs)

ShapefileTerminal(c, srcs) == c.source_idx >= Len(srcs)

\* lib.rs 219, 404
RangeEnd(offset, len) == Min(offset + VECTOR_SIZE, len)

\* mutant: the offset is not reset when the cursor moves to the next source
GeoJsonAdvance_KeepsOffset(c, last) ==
    IF last THEN [source_idx |-> c.source_idx + 1, offset |-> c.offset]
    ELSE [source_idx |-> c.source_idx, offset |-> c.offset + VECTOR_SIZE]

\* lib.rs 263-268
GeoJsonAdvance(c, last) ==
    IF last THEN [source_idx |-> c.source_idx + 1, offset |-> 0]
    ELSE [source_idx |-> c.source_idx, offset |-> c.offset + VECTOR_SIZE]

\* mutant: the cursor stays on its source after the last batch of it
ShapefileAdvance_NeverLast(c, last) ==
    [source_idx |-> c.source_idx, offset |-> c.offset + VECTOR_SIZE]

\* lib.rs 458-463
ShapefileAdvance(c, last) ==
    IF last THEN [source_idx |-> c.source_idx + 1, offset |-> 0]
    ELSE [source_idx |-> c.source_idx, offset |-> c.offset + VECTOR_SIZE]

\* lib.rs 202-272
GeoJsonFunc(c, srcs, specs) ==
    IF GeoJsonTerminal(c, srcs) THEN Outcome(c, << >>, EmptyChunk, "ok", << >>)
    ELSE IF c.source_idx + 1 > Len(srcs) THEN Failed(c, << >>, "panic", 0, 0, << >>, << >>)
    ELSE LET source == srcs[c.source_idx + 1]
             len == NumRows(source.features)
             range_end == RangeEnd(c.offset, len)
             last == range_end >= len
         IN  IF c.offset > range_end THEN Failed(c, << >>, "panic", c.source_idx, 0, << >>, << >>)
             ELSE LET rows == Slice(source.features, c.offset, range_end)
                      written == WriteRows([i \in 1..Len(rows) |->
                                              GeoJsonRow(specs, source.filename, rows[i].row)],
                                           rows)
                      read == << Read(c.source_idx, c.offset, range_end - c.offset) >>
                  IN  IF written.status # "ok"
                      THEN Failed(c, << >>, written.status, c.source_idx, c.offset, written.cells,
                                  read)
                      ELSE Outcome(c, << GeoJsonAdvance(c, last) >>,
                                   Chunk(c.source_idx, c.offset, written.cells), "ok", read)

\* lib.rs 389-467
ShapefileFunc(c, srcs, specs) ==
    IF ShapefileTerminal(c, srcs) THEN Outcome(c, << >>, EmptyChunk, "ok", << >>)
    ELSE IF c.source_idx + 1 > Len(srcs) THEN Failed(c, << >>, "panic", 0, 0, << >>, << >>)
    ELSE LET source == srcs[c.source_idx + 1]
             len == NumRows(source.rows)
             range_end == RangeEnd(c.offset, len)
             last == range_end >= len
         IN  IF c.offset > range_end THEN Failed(c, << >>, "panic", c.source_idx, 0, << >>, << >>)
             ELSE LET rows == Slice(source.rows, c.offset, range_end)
                      written == WriteRows([i \in 1..Len(rows) |->
                                              ShapefileRowCells(specs, source.filename,
                                                                rows[i].row)],
                                           rows)
                      read == << Read(c.source_idx, c.offset, range_end - c.offset) >>
                  IN  Outcome(c, << ShapefileAdvance(c, last) >>,
                              Chunk(c.source_idx, c.offset, written.cells), "ok", read)

\* GpkgConnection::fetch_rows(sql, offset, f): runs the source's query, which is
\* limited to VECTOR_SIZE rows from `offset` on, calls f with every row and its
\* index in the result, and returns the number of rows (or the first error of f)
fetch_rows(source, offset) ==
    LET len == NumRows(source.rows)
        lo == Min(offset, len)
        rows == Slice(source.rows, lo, Min(lo + VECTOR_SIZE, len))
        written == WriteRows([i \in 1..Len(rows) |-> GpkgRow(source, rows[i].row)], rows)
    IN  [status |-> written.status, row_count |-> NumRows(written.cells),
         cells |-> written.cells, lo |-> lo, asked |-> Min(lo + VECTOR_SIZE, len) - lo]

\* mutant: a full batch leaves the offset where it was
GpkgAdvance_StaysOnFullBatch(c, row_count) ==
    IF row_count = VECTOR_SIZE THEN c
    ELSE [source_idx |-> c.source_idx + 1, offset |-> 0]

\* lib.rs 356-378: the cursor after a fetch of row_count rows
GpkgAdvance(c, row_count) ==
    IF row_count = VECTOR_SIZE
    THEN [source_idx |-> c.source_idx, offset |-> c.offset + row_count]
    ELSE [source_idx |-> c.source_idx + 1, offset |-> 0]

\* mutant: a fetch of no row ends the step
GpkgContinues_Never(c, srcs) == FALSE

\* lib.rs 364: after a fetch of no row, go on with the next source
GpkgContinues(c, srcs) == c.source_idx < Len(srcs)

\* lib.rs 293-383: the loop over sources[cursor.source_idx..]; c is the cursor,
\* writes the values the step has given it so far
RECURSIVE GpkgSources(_, _, _, _)
GpkgFetched(c, srcs, writes, read, fetched) ==
    IF fetched.status # "ok"
    THEN Failed(c, writes, fetched.status, c.source_idx, fetched.lo, fetched.cells, read)
    ELSE IF fetched.row_count > VECTOR_SIZE
         THEN Failed(c, writes, "panic", c.source_idx, fetched.lo, fetched.cells, read)
    ELSE IF fetched.row_count = 0 /\ GpkgContinues(GpkgAdvance(c, fetched.row_count), srcs)
         THEN GpkgSources(GpkgAdvance(c, fetched.row_count), srcs,
                          Append(writes, GpkgAdvance(c, fetched.row_count)), read)
    ELSE Outcome(c, Append(writes, GpkgAdvance(c, fetched.row_count)),
                 Chunk(c.source_idx, fetched.lo, fetched.cells), "ok", read)

GpkgRead(c, fetched) == Read(c.source_idx, fetched.lo, fetched.asked)

GpkgSourceFetched(c, srcs, writes, read, fetched) ==
    GpkgFetched(c, srcs, writes, Append(read, GpkgRead(c, fetched)), fetched)

GpkgSources(c, srcs, writes, read) ==
    GpkgSourceFetched(c, srcs, writes, read, fetch_rows(srcs[c.source_idx + 1], c.offset))

\* lib.rs 277-384
GpkgFunc(c, srcs) ==
    IF GpkgTerminal(c, srcs) THEN Outcome(c, << >>, EmptyChunk, "ok", << >>)
    ELSE IF c.source_idx + 1 > Len(srcs) THEN Failed(c, << >>, "panic", 0, 0, << >>, << >>)
    ELSE GpkgSources(c, srcs, << >>, << >>)

\* what a call that read the cursor `start`, before its end, adds to the history
StepRecord(start, out) ==
    IF start.source_idx >= Len(sources) THEN << >>
    ELSE << [start |-> start, end |-> out.cursor, result |-> out.result,
             src |-> out.output.src, lo |-> out.output.lo, len |-> out.output.len] >>

\* a call of func that read the cursor `start` returns; the host's side of it: it
\* keeps the batches until the first empty one
Delivered(start, out) ==
    /\ cursor' = out.cursor
    /\ output' = out.output
    /\ step_result' = out.result
    /\ step_start' = start
    /\ cursor_writes' = out.writes
    /\ reads' = reads \o out.reads
    /\ steps' = steps \o StepRecord(start, out)
    /\ emitted' = IF scan = "running" /\ out.result = "ok" /\ out.output.len > 0
                  THEN Append(emitted, Read(out.output.src, out.output.lo, out.output.len))
                  ELSE emitted
    /\ scan' = CASE out.result # "ok" -> "failed"
                 [] scan = "running" /\ out.output.len = 0 -> "done"
                 [] OTHER -> scan
    /\ UNCHANGED << format, files, layer_param, bind_state, bind_error, sources,
                    column_specs, result_columns, wkb_in, wkb_out >>

\* a call of func by a host that calls from one thread: the lock is free before
\* and after it
Deliver(out) ==
    /\ Delivered(cursor, out)
    /\ UNCHANGED << cursor_lock, thread >>

CanStep == bind_state = "ok" /\ scan # "failed"

StepGeoJson ==
    /\ CanStep
    /\ format = "GeoJson"
    /\ Deliver(GeoJsonFunc(cursor, sources, column_specs))

StepGpkg ==
    /\ CanStep
    /\ format = "Gpkg"
    /\ Deliver(GpkgFunc(cursor, sources))

StepShapefile ==
    /\ CanStep
    /\ format = "Shapefile"
    /\ Deliver(ShapefileFunc(cursor, sources, column_specs))

Next == Bind \/ StepGeoJson \/ StepGpkg \/ StepShapefile

-----------------------------------------------------------------------------
(* The inputs: the files a call matches *)

\* the columns a file presents, in the order it presents them
SchemaVariants == {"ab", "ba", "type", "name", "short", "none"}

VariantColumns(variant) ==
    CASE variant = "ab" -> << <<"val1", "number">>, <<"val2", "string">> >>
      [] variant = "ba" -> << <<"val2", "string">>, <<"val1", "number">> >>
      [] variant = "type" -> << <<"val1", "number">>, <<"val2", "number">> >>
      [] variant = "name" -> << <<"val1", "number">>, <<"val3", "string">> >>
      [] variant = "short" -> << <<"val1", "number">> >>
      [] variant = "none" -> << >>

Runs(n, row) == IF n = 0 THEN << >> ELSE << [n |-> n, row |-> row] >>

\* n rows, the first of them `first` and the others `row`
RunsWithFirst(n, first, row) ==
    IF n = 0 THEN << >>
    ELSE IF first = row THEN Runs(n, row)
    ELSE << [n |-> 1, row |-> first] >> \o Runs(n - 1, row)

Feature(variant) ==
    LET cols == VariantColumns(variant)
    IN  [geometry |-> "point", has_properties |-> TRUE,
         properties |-> [i \in 1..Len(cols) |->
                           [key |-> cols[i][1], value |-> [kind |-> cols[i][2], v |-> i]]]]

GeoJsonFile(path, variant, n) ==
    [path |-> path, readable |-> TRUE, feature_collection |-> TRUE,
     features |-> Runs(n, Feature(variant))]

DbfFieldType(kind) == IF kind = "number" THEN "Numeric" ELSE "Character"

\* a shapefile without a .cpg file beside it
NoCpg == [exists |-> FALSE, readable |-> FALSE, content |-> << >>]

ShapefileFile(path, variant, n) ==
    LET cols == VariantColumns(variant)
    IN  [path |-> path, readable |-> TRUE, cpg |-> NoCpg,
         fields |-> [i \in 1..Len(cols) |->
                       [name |-> cols[i][1], field_type |-> DbfFieldType(cols[i][2])]],
         records |-> Runs(n, [shape |-> "Point",
                              record |-> [i \in 1..Len(cols) |->
                                            [key |-> cols[i][1],
                                             value |-> [kind |-> DbfFieldType(cols[i][2]),
                                                        some |-> TRUE, v |-> i]]]])]

\* a GeoPackage geometry blob of `len` bytes: magic "GP", version, flags, srs_id,
\* then the envelope and the WKB; the byte at index i >= 8 is i, so that a suffix
\* tells where it starts
GpkgBlob(flags, len) ==
    [i \in 1..len |-> CASE i = 1 -> 71 [] i = 2 -> 80 [] i = 3 -> 0 [] i = 4 -> flags
                        [] i \in 5..8 -> 0 [] OTHER -> (i - 1) % 256]

Stored(kind, int, bytes) == [kind |-> kind, int |-> int, bytes |-> bytes]

SqlDeclaredType(kind) == IF kind = "number" THEN "DOUBLE" ELSE "TEXT"

SqlStored(kind, i) == IF kind = "number" THEN Stored("real", i, << >>) ELSE Stored("text", i, << >>)

GpkgTableRow(variant, flags) ==
    LET cols == VariantColumns(variant)
    IN  << Stored("blob", 0, GpkgBlob(flags, HeaderSize(IF EnvelopeSize(flags) < 0 THEN 0
                                                         ELSE EnvelopeSize(flags)) + MaxPayload)) >>
        \o [i \in 1..Len(cols) |-> SqlStored(cols[i][2], i)]

GpkgTable(table_name, variant, n, first_flags) ==
    LET cols == VariantColumns(variant)
    IN  [table_name |-> table_name, primary_key |-> "fid",
         columns |-> << [name |-> "fid", type |-> "INTEGER"], [name |-> "geom", type |-> "POINT"] >>
                     \o [i \in 1..Len(cols) |->
                           [name |-> cols[i][1], type |-> SqlDeclaredType(cols[i][2])]],
         rows |-> RunsWithFirst(n, GpkgTableRow(variant, first_flags), GpkgTableRow(variant, 0))]

LayerNames == << "layer1", "layer2" >>

\* a GeoPackage file holding the given tables, all listed in gpkg_contents
GpkgFile(path, tables) ==
    [path |-> path, readable |-> TRUE, has_contents |-> TRUE,
     contents |-> [i \in 1..Len(tables) |-> tables[i].table_name],
     tables |-> tables]

\* the row counts of a source: none, one, and around every full batch
RowCounts ==
    {0, 1, VECTOR_SIZE - 1}
        \cup UNION {{k * VECTOR_SIZE, k * VECTOR_SIZE + 1} : k \in 1..MaxFullBatches}

\* flags of the first row's geometry of a GeoPackage table: no envelope, an
\* envelope of 32 bytes, and the invalid envelope code 5
FirstRowFlags == {0, 2, 10}

NotCalled == [called |-> FALSE, result |-> [panic |-> FALSE, start |-> 0, bytes |-> << >>]]

\* scenario: per file its variant and its row count
FileShapes(variants, counts) ==
    UNION {[1..k -> variants \X counts] : k \in 1..MaxFiles}

\* layers per GeoPackage file: every file one layer, or two layers a file
RECURSIVE PairUp(_, _)
PairUp(tables, path) ==
    IF tables = << >> THEN << >>
    ELSE IF Len(tables) = 1 THEN << GpkgFile(path, tables) >>
    ELSE << GpkgFile(path, << [tables[1] EXCEPT !.table_name = LayerNames[1]],
                                [tables[2] EXCEPT !.table_name = LayerNames[2]] >>) >>
         \o PairUp(SubSeq(tables, 3, Len(tables)), path + 1)

MakeFiles(fmt, shape, paired, first_flags) ==
    CASE fmt = "GeoJson" ->
             [i \in 1..Len(shape) |-> GeoJsonFile(i, shape[i][1], shape[i][2])]
      [] fmt = "Shapefile" ->
             [i \in 1..Len(shape) |-> ShapefileFile(i, shape[i][1], shape[i][2])]
      [] fmt = "Gpkg" ->
             LET tables == [i \in 1..Len(shape) |->
                              GpkgTable(LayerNames[1], shape[i][1], shape[i][2], first_flags)]
             IN  IF paired THEN PairUp(tables, 1)
                 ELSE [i \in 1..Len(shape) |-> GpkgFile(i, << tables[i] >>)]

InitWithLayer(fmt, fs, layer) ==
    /\ format = fmt
    /\ files = fs
    /\ layer_param = layer
    /\ bind_state = "unbound"
    /\ bind_error = NoError
    /\ sources = << >>
    /\ column_specs = << >>
    /\ result_columns = << >>
    /\ cursor = NewCursor
    /\ output = EmptyChunk
    /\ step_result = "none"
    /\ step_start = NewCursor
    /\ cursor_writes = << >>
    /\ reads = << >>
    /\ emitted = << >>
    /\ scan = "running"
    /\ wkb_in = << >>
    /\ wkb_out = NotCalled
    /\ cursor_lock = Unlocked
    /\ thread = [t \in Threads |-> Idle]
    /\ steps = << >>

InitWith(fmt, fs) == InitWithLayer(fmt, fs, NoLayer)

\* binds: files of every mix of schemas, with one row each; and
\* scans: files of one schema and every mix of row counts, the schema without
\* property columns for GeoJSON too, whose files without features have no others;
\* a first row with other flags in scans of one GeoPackage file
Init ==
    \E fmt \in Formats :
        \/ \E shape \in FileShapes(SchemaVariants, {1}), paired \in BOOLEAN :
              /\ paired => fmt = "Gpkg"
              /\ InitWith(fmt, MakeFiles(fmt, shape, paired, 0))
        \/ \E variant \in {"ab", "none"}, paired \in BOOLEAN, flags \in FirstRowFlags :
              \E shape \in FileShapes({variant}, RowCounts) :
                  /\ variant = "none" => fmt = "GeoJson"
                  /\ (paired \/ flags # 0) => fmt = "Gpkg"
                  /\ paired => flags = 0
                  /\ flags # 0 => Len(shape) = 1
                  /\ InitWith(fmt, MakeFiles(fmt, shape, paired, flags))

Spec == Init /\ [][Next]_vars

-----------------------------------------------------------------------------
(* gpkg_geometry_to_wkb alone: every flags byte on blobs of every length up to *)
(* a header, the longest envelope and a payload                               *)

LongestEnvelope == 64

WkbInit ==
    /\ \E flags \in 0..255, len \in 0..(HeaderSize(LongestEnvelope) + MaxPayload) :
           wkb_in = GpkgBlob(flags, len)
    /\ wkb_out = NotCalled
    /\ format = "Gpkg"
    /\ files = << >>
    /\ layer_param = NoLayer
    /\ bind_state = "unbound"
    /\ bind_error = NoError
    /\ sources = << >>
    /\ column_specs = << >>
    /\ result_columns = << >>
    /\ cursor = NewCursor
    /\ output = EmptyChunk
    /\ step_result = "none"
    /\ step_start = NewCursor
    /\ cursor_writes = << >>
    /\ reads = << >>
    /\ emitted = << >>
    /\ scan = "running"
    /\ cursor_lock = Unlocked
    /\ thread = [t \in Threads |-> Idle]
    /\ steps = << >>

WkbConvert ==
    /\ ~wkb_out.called
    /\ wkb_out' = [called |-> TRUE, result |-> gpkg_geometry_to_wkb(wkb_in)]
    /\ UNCHANGED << format, files, layer_param, bind_state, bind_error, sources,
                    column_specs, result_columns, cursor, output, step_result, step_start,
                    cursor_writes, reads, emitted, scan, wkb_in, cursor_lock, thread,
                    steps >>

WkbNext == WkbConvert

WkbSpec == WkbInit /\ [][WkbNext]_vars

-----------------------------------------------------------------------------
(* What the scan is to deliver *)

SourceLen(source) ==
    IF format = "GeoJson" THEN NumRows(source.features) ELSE NumRows(source.rows)

\* all rows of all sources, in source order and then in-source order, as chunks
RECURSIVE AllRowsFrom(_)
AllRowsFrom(i) ==
    IF i > Len(sources) THEN << >>
    ELSE (IF SourceLen(sources[i]) = 0 THEN << >>
          ELSE << Read(i - 1, 0, SourceLen(sources[i])) >>) \o AllRowsFrom(i + 1)

AllRows == AllRowsFrom(1)

\* a list of chunks with every two neighbours that continue one another joined:
\* two lists of chunks hold the same rows in the same order iff these are equal
RECURSIVE Joined(_)
Joined(chunks) ==
    IF Len(chunks) < 2 THEN chunks
    ELSE LET a == chunks[1]
             b == chunks[2]
         IN  IF a.src = b.src /\ a.lo + a.len = b.lo
             THEN Joined(<< Read(a.src, a.lo, a.len + b.len) >> \o SubSeq(chunks, 3, Len(chunks)))
             ELSE << a >> \o Joined(Tail(chunks))

RECURSIVE RowCount(_)
RowCount(chunks) == IF chunks = << >> THEN 0 ELSE Head(chunks).len + RowCount(Tail(chunks))

Stepped == bind_state = "ok" /\ step_result # "none"

\* C1: when the host has stepped up to the first empty batch, the batches it got
\* are, joined, all rows of all sources in source order and in-source order, and
\* their row counts sum to the total row count.
C1_AllRowsInOrder ==
    (bind_state = "ok" /\ scan = "done")
        => (Joined(emitted) = AllRows /\ RowCount(emitted) = RowCount(AllRows))

\* C2: a step never hands the host an empty batch while a later source is left:
\* after a step that returned an empty batch the cursor is past the last source.
C2_EmptyBatchOnlyAtEnd ==
    (Stepped /\ step_result = "ok" /\ output.len = 0)
        => cursor.source_idx = Len(sources)

\* C3: a batch the host gets has at most VECTOR_SIZE rows, and it has no row only
\* when every row of every source has been emitted before.
C3_BatchCapacity ==
    (Stepped /\ step_result = "ok")
        => /\ output.len <= VECTOR_SIZE
           /\ (scan = "done" => RowCount(emitted) = RowCount(AllRows))

\* C4: a step that starts with the cursor past the last source returns an empty
\* batch and success and leaves the cursor where it was, in every format.
C4_TerminalAbsorbing ==
    (Stepped /\ step_start.source_idx = Len(sources))
        => (output.len = 0 /\ step_result = "ok" /\ cursor = step_start)

\* a step was taken from the terminal state, after a scan that emitted rows
C4_Witness ==
    /\ Stepped
    /\ step_start.source_idx = Len(sources)
    /\ cursor = step_start
    /\ emitted # << >>
    /\ scan = "done"

\* the values of the cursor from the start of the last step to its end
CursorValues == << step_start >> \o cursor_writes

-----------------------------------------------------------------------------
(* What bind is to check and declare *)

\* the schemas of the sources of one file, as its adapter reports them
FileSchemas(file) ==
    CASE format = "GeoJson" -> << parse_and_split(file).value.column_specs >>
      [] format = "Shapefile" -> << ShapefileDataSource_new(file).value.column_specs >>
      [] format = "Gpkg" ->
             [j \in 1..Len(list_data_sources(file, layer_param).value) |->
                 list_data_sources(file, layer_param).value[j].column_specs]

FileOpens(file) ==
    CASE format = "GeoJson" -> parse_and_split(file).ok
      [] format = "Shapefile" -> ShapefileDataSource_new(file).ok
      [] format = "Gpkg" -> list_data_sources(file, layer_param).ok

AllOpen == \A i \in 1..Len(files) : FileOpens(files[i])

\* every source of every file in discovery order: its file's path and its schema
RECURSIVE DiscoveredFrom(_)
DiscoveredFrom(i) ==
    IF i > Len(files) THEN << >>
    ELSE [j \in 1..Len(FileSchemas(files[i])) |->
             [path |-> files[i].path, column_specs |-> FileSchemas(files[i])[j]]]
         \o DiscoveredFrom(i + 1)

Discovered == DiscoveredFrom(1)

Differing(d) == {k \in 1..Len(d) : d[k].column_specs # d[1].column_specs}

FirstOf(set) == CHOOSE k \in set : \A j \in set : k <= j

\* C6: bind succeeds only if every source has the schema of the first source,
\* column for column in name and type; otherwise it fails with a schema mismatch
\* that names the file of the first source that differs, and nothing is declared,
\* kept as a source or read.
C6_SchemaValidation ==
    (bind_state # "unbound" /\ AllOpen /\ Discovered # << >>) =>
        IF Differing(Discovered) = {}
        THEN /\ bind_state = "ok"
             /\ column_specs = Discovered[1].column_specs
             /\ Len(sources) = Len(Discovered)
        ELSE /\ bind_state = "error"
             /\ bind_error.kind = "SchemaMismatch"
             /\ bind_error.path = Discovered[FirstOf(Differing(Discovered))].path
             /\ sources = << >>
             /\ result_columns = << >>
             /\ reads = << >>

\* bind failed on the third file, whose second column has another type, after a
\* second file that matched
C6_Witness ==
    /\ bind_state = "error"
    /\ bind_error = SchemaMismatch(3, "type", 1)
    /\ Len(files) = 3

ColumnSet(specs) == {specs[i] : i \in 1..Len(specs)}

\* C7: in every format, sources that hold the same set of (name, type) columns
\* unify, whatever the order in which each presents them.
C7_OrderInsensitive ==
    (/\ bind_state # "unbound"
     /\ AllOpen
     /\ Discovered # << >>
     /\ \A k \in 1..Len(Discovered) :
           /\ ColumnSet(Discovered[k].column_specs) = ColumnSet(Discovered[1].column_specs)
           /\ Len(Discovered[k].column_specs) = Len(Discovered[1].column_specs))
        => bind_state = "ok"

Names(columns) == [i \in 1..Len(columns) |-> columns[i].name]

IsSortedByName(specs) ==
    \A i \in 1..Len(specs) : \A j \in (i + 1)..Len(specs) : NameLess(specs[i].name, specs[j].name)

FirstLayerColumns == Names(TableInfo(files[1].tables[1].columns))

-----------------------------------------------------------------------------
(* The GeoPackage geometry header *)

EnvelopeCode(flags) == (flags \div 2) % 8

\* the size of the envelope for the envelope codes 0 to 4
EnvelopeSizes == << 0, 32, 48, 48, 64 >>

\* C9: of a blob long enough to hold header and envelope, gpkg_geometry_to_wkb
\* returns the suffix from offset 8 + envelope size, the size being chosen by
\* bits 1-3 of the flags alone: 0, 32, 48, 48, 64 for the codes 0 to 4; for the
\* codes 5 to 7 it returns the empty slice.
C9_PayloadOffset ==
    (wkb_out.called /\ Len(wkb_in) >= 4) =>
        IF EnvelopeCode(wkb_in[4]) <= 4
        THEN Len(wkb_in) >= 8 + EnvelopeSizes[EnvelopeCode(wkb_in[4]) + 1] =>
                /\ ~wkb_out.result.panic
                /\ wkb_out.result.start = 8 + EnvelopeSizes[EnvelopeCode(wkb_in[4]) + 1]
                /\ wkb_out.result.bytes
                       = [i \in 1..(Len(wkb_in) - wkb_out.result.start) |->
                             wkb_in[wkb_out.result.start + i]]
                /\ wkb_out.result
                       = gpkg_geometry_to_wkb(GpkgBlob(2 * EnvelopeCode(wkb_in[4]), Len(wkb_in)))
        ELSE /\ ~wkb_out.result.panic
             /\ wkb_out.result.start = -1
             /\ wkb_out.result.bytes = << >>

\* a blob with flags 0b00000010 and a payload was converted: the payload starts at 40
C9_Witness ==
    /\ wkb_out.called
    /\ Len(wkb_in) > 40
    /\ wkb_in[4] = 2
    /\ wkb_out.result.start = 40
    /\ Len(wkb_out.result.bytes) = Len(wkb_in) - 40

MalformedFlags(stored) ==
    stored.kind = "blob" /\ Len(stored.bytes) >= 4 /\ EnvelopeCode(stored.bytes[4]) > 4

\* the rows of the source that the batch in output was made of
RowsRead == Slice(sources[output.src + 1].rows, output.lo, output.lo + output.len)

\* C10: a step that reads a GeoPackage row whose geometry has malformed envelope
\* flags fails; no batch is delivered that holds such a row.
C10_MalformedFlagsFail ==
    (Stepped /\ format = "Gpkg" /\ step_result = "ok" /\ output.len > 0) =>
        \A k \in 1..Len(RowsRead) : \A i \in 1..Len(column_specs) :
            column_specs[i].column_type = "Geometry" => ~MalformedFlags(RowsRead[k].row[i])

-----------------------------------------------------------------------------
(* Files that are not as bind expects them *)

\* a feature with the given geometry and properties, each <<key, kind of value>>
FeatureOf(geometry, has_properties, props) ==
    [geometry |-> geometry, has_properties |-> has_properties,
     properties |-> [i \in 1..Len(props) |->
                       [key |-> props[i][1], value |-> [kind |-> props[i][2], v |-> i]]]]

\* what can be wrong with one file of a format
Defects(fmt) ==
    CASE fmt = "GeoJson" -> {"unreadable", "not_collection", "bad_value", "schema"}
      [] fmt = "Gpkg" -> {"unreadable", "no_contents", "bad_type", "schema"}
      [] fmt = "Shapefile" -> {"unreadable", "bad_shape", "schema"}

GoodFile(fmt, path) ==
    CASE fmt = "GeoJson" -> GeoJsonFile(path, "ab", 1)
      [] fmt = "Gpkg" -> GpkgFile(path, << GpkgTable(LayerNames[1], "ab", 1, 0) >>)
      [] fmt = "Shapefile" -> ShapefileFile(path, "ab", 1)

SchemaDefectFile(fmt, path) ==
    CASE fmt = "GeoJson" -> GeoJsonFile(path, "type", 1)
      [] fmt = "Gpkg" -> GpkgFile(path, << GpkgTable(LayerNames[1], "type", 1, 0) >>)
      [] fmt = "Shapefile" -> ShapefileFile(path, "type", 1)

\* a table one of whose columns is declared with a type get_column_specs does not know
BadTypeTable ==
    [GpkgTable(LayerNames[1], "ab", 1, 0) EXCEPT
        !.columns = [i \in 1..Len(@) |-> IF @[i].name = "val2"
                                         THEN [@[i] EXCEPT !.type = "BLOB"] ELSE @[i]]]

DefectFile(fmt, path, defect) ==
    CASE defect = "unreadable" -> [GoodFile(fmt, path) EXCEPT !.readable = FALSE]
      [] defect = "schema" -> SchemaDefectFile(fmt, path)
      [] defect = "not_collection" ->
             [GoodFile(fmt, path) EXCEPT !.feature_collection = FALSE]
      [] defect = "bad_value" ->
             [GoodFile(fmt, path) EXCEPT
                 !.features = Runs(1, FeatureOf("point", TRUE, << <<"val1", "number">>,
                                                                  <<"val2", "array">> >>))]
      [] defect = "no_contents" -> [GoodFile(fmt, path) EXCEPT !.has_contents = FALSE]
      [] defect = "bad_type" -> GpkgFile(path, << BadTypeTable >>)
      [] defect = "bad_shape" ->
             [GoodFile(fmt, path) EXCEPT
                 !.records = [i \in 1..Len(@) |-> [@[i] EXCEPT !.row.shape = "Unconvertible"]]]

\* k files, the one at position p (none when p = 0) with a defect
FilesWithDefect(fmt, k, p, defect) ==
    [i \in 1..k |-> IF i = p THEN DefectFile(fmt, i, defect) ELSE GoodFile(fmt, i)]

DefectInit ==
    \E fmt \in Formats, k \in 1..MaxFiles :
        \E p \in 0..k, defect \in Defects(fmt) :
            InitWith(fmt, FilesWithDefect(fmt, k, p, defect))

-----------------------------------------------------------------------------
(* Bind is all or nothing *)

\* a file cannot be opened or its schema inferred, or a source's schema is not
\* that of the first source
SomeFileFails == ~AllOpen \/ Discovered = << >> \/ Differing(Discovered) # {}

\* C11: when opening, schema inference or schema validation fails for one of the
\* matched files, at whatever position, bind returns an error, declares no column
\* and leaves no bind data, and no step runs.
C11_AllOrNothing ==
    (bind_state # "unbound" /\ SomeFileFails) =>
        /\ bind_state = "error"
        /\ bind_error # NoError
        /\ result_columns = << >>
        /\ sources = << >>
        /\ column_specs = << >>
        /\ step_result = "none"
        /\ reads = << >>
        /\ emitted = << >>
        /\ ~ENABLED StepGeoJson /\ ~ENABLED StepGpkg /\ ~ENABLED StepShapefile

\* bind failed on the last of three files, which cannot be opened, after two
\* files that were opened
C11_Witness ==
    /\ bind_state = "error"
    /\ Len(files) = 3
    /\ FileOpens(files[1]) /\ FileOpens(files[2]) /\ ~FileOpens(files[3])
    /\ sources = << >>

-----------------------------------------------------------------------------
(* GeoJSON features without geometry *)

\* where in a file a feature stands that is unlike the others: first, second,
\* past the sample and past the first batch
Positions == {0, 1, SampleSize, VECTOR_SIZE}

\* `before` features f, then one feature `odd`, then `after` features f
FeaturesAround(before, odd, after, f) == Runs(before, f) \o Runs(1, odd) \o Runs(after, f)

NoGeometryFile(path, before, after) ==
    [GeoJsonFile(path, "ab", 0) EXCEPT
        !.features = FeaturesAround(before, [Feature("ab") EXCEPT !.geometry = "none"],
                                    after, Feature("ab"))]

\* one file with a feature without geometry, alone or after a file without one
NoGeometryInit ==
    \E before \in Positions, after \in {0, 1}, second \in BOOLEAN :
        InitWith("GeoJson",
                 IF second THEN << GeoJsonFile(1, "ab", 1), NoGeometryFile(2, before, after) >>
                 ELSE << NoGeometryFile(1, before, after) >>)

LacksGeometry(file) ==
    \E i \in 1..Len(file.features) : file.features[i].row.geometry = "none"

\* C12: when a GeoJSON file holds a feature without geometry, bind fails and no
\* step of the scan is executed.
C12_MissingGeometryAtBind ==
    (/\ format = "GeoJson"
     /\ bind_state # "unbound"
     /\ \E i \in 1..Len(files) : LacksGeometry(files[i]))
        => (bind_state = "error" /\ step_result = "none")

-----------------------------------------------------------------------------
(* GeoJSON schema inference *)

\* the features of the sampling scenarios: properties of every supported kind,
\* nulls, names that others lack, a name with values of two kinds, and a
\* feature without properties object
FeatureKinds == {"A", "B", "C", "D", "E"}

KindFeature(kind) ==
    CASE kind = "A" -> FeatureOf("point", TRUE, << <<"val1", "number">>, <<"val2", "string">> >>)
      [] kind = "B" -> FeatureOf("point", TRUE, << <<"val1", "string">>, <<"val2", "null">> >>)
      [] kind = "C" -> FeatureOf("point", TRUE, << <<"val3", "bool">>, <<"val1", "null">> >>)
      [] kind = "D" -> FeatureOf("point", FALSE, << >>)
      [] kind = "E" -> FeatureOf("point", TRUE, << <<"val2", "number">> >>)

\* the lengths of a run of equal features: one, and up to the last feature of
\* the sample or one short of it
RunLengths == {1, SampleSize - 1, SampleSize}

\* one file of up to MaxRuns runs of features
SampleInit ==
    \E k \in 1..MaxRuns :
        \E shape \in [1..k -> RunLengths \X FeatureKinds] :
            InitWith("GeoJson",
                     << [GeoJsonFile(1, "none", 0) EXCEPT
                            !.features = [j \in 1..k |->
                                            [n |-> shape[j][1], row |-> KindFeature(shape[j][2])]]] >>)

\* the index in the file of the first feature of run j
RECURSIVE RunStart(_, _)
RunStart(runs, j) == IF j = 1 THEN 0 ELSE RunStart(runs, j - 1) + runs[j - 1].n

FeatureCount(runs) == RunStart(runs, Len(runs) + 1)

\* the runs with a feature among the first min(100, n) that holds a value other
\* than null under the name
Carriers(runs, name) ==
    {j \in 1..Len(runs) :
        /\ RunStart(runs, j) < (IF FeatureCount(runs) < 100 THEN FeatureCount(runs) ELSE 100)
        /\ runs[j].row.has_properties
        /\ \E p \in 1..Len(runs[j].row.properties) :
              runs[j].row.properties[p].key = name /\ runs[j].row.properties[p].value.kind # "null"}

ValueOf(feature, name) ==
    feature.properties[CHOOSE p \in 1..Len(feature.properties) :
                           feature.properties[p].key = name].value

KindType(kind) ==
    CASE kind = "bool" -> "Boolean" [] kind = "number" -> "Double" [] kind = "string" -> "Varchar"

\* the schema the claim describes: the names with a carrier, in lexicographic
\* order, each with the type of the value of its first carrier
ExpectedSchema(runs) ==
    LET present == SelectSeq(<< "val1", "val2", "val3" >>, LAMBDA name : Carriers(runs, name) # {})
    IN  [i \in 1..Len(present) |->
            [name |-> present[i],
             column_type |-> KindType(ValueOf(runs[FirstOf(Carriers(runs, present[i]))].row,
                                              present[i]).kind)]]

Supported(file) ==
    /\ file.readable /\ file.feature_collection
    /\ \A j \in 1..Len(file.features) : \A p \in 1..Len(PropertiesIter(file.features[j].row)) :
          file.features[j].row.properties[p].value.kind \in {"null", "bool", "number", "string"}

-----------------------------------------------------------------------------
(* GeoJSON values without a ColumnType *)

\* a feature with a JSON array or object, as the value of a name the other
\* features have too or of a name of its own
UnsupportedFeature(name, kind) ==
    IF name = "val1"
    THEN FeatureOf("point", TRUE, << <<"val1", kind>>, <<"val2", "string">> >>)
    ELSE FeatureOf("point", TRUE, << <<"val1", "number">>, <<"val2", "string">>, <<name, kind>> >>)

UnsupportedInit ==
    \E before \in Positions, after \in {0, 1}, name \in {"val1", "val3"},
       kind \in {"array", "object"} :
        InitWith("GeoJson",
                 << [GeoJsonFile(1, "ab", 0) EXCEPT
                        !.features = FeaturesAround(before, UnsupportedFeature(name, kind),
                                                    after, Feature("ab"))] >>)

HoldsUnsupported(file) ==
    \E j \in 1..Len(file.features) : \E p \in 1..Len(PropertiesIter(file.features[j].row)) :
        file.features[j].row.properties[p].value.kind \in {"array", "object"}

\* C14: when a feature of a GeoJSON file, at whatever position, holds a property
\* value that is a JSON array or object, bind fails.
C14_UnsupportedValueAtBind ==
    (/\ format = "GeoJson"
     /\ bind_state # "unbound"
     /\ \E i \in 1..Len(files) : HoldsUnsupported(files[i]))
        => bind_state = "error"

-----------------------------------------------------------------------------
(* NULL cells of a GeoJSON scan *)

\* the features the batch in output was made of, run by run
FeaturesRead == Slice(sources[output.src + 1].features, output.lo, output.lo + output.len)

\* the feature has no value, or null, under the name
LacksValue(feature, name) ==
    \/ ~feature.has_properties
    \/ \A p \in 1..Len(feature.properties) :
          feature.properties[p].key = name => feature.properties[p].value.kind = "null"

\* C15: in every batch of a GeoJSON scan, the cell of a column whose property the
\* feature lacks, or holds as null, or lacks with all others for want of a
\* properties object, is marked NULL; no cell is left neither written nor marked.
C15_NullMarked ==
    (Stepped /\ format = "GeoJson" /\ step_result = "ok" /\ output.len > 0) =>
        \A k \in 1..Len(output.cells) : \A i \in 1..Len(column_specs) :
            /\ output.cells[k].row.props[i].state # "unset"
            /\ LacksValue(FeaturesRead[k].row, column_specs[i].name)
                  => output.cells[k].row.props[i].state = "null"

-----------------------------------------------------------------------------
(* The layers of GeoPackage files *)

\* the values of the parameter `layer`: none, the layers files have, and a
\* layer no file has
LayerParams == {NoLayer, LayerNames[1], LayerNames[2], "layer3"}

\* a file with the first n of the layers, one row each
LayeredFile(path, n) ==
    GpkgFile(path, [j \in 1..n |-> GpkgTable(LayerNames[j], "ab", 1, 0)])

LayerInit ==
    \E k \in 1..MaxFiles, layer \in LayerParams :
        \E counts \in [1..k -> 0..Len(LayerNames)] :
            InitWithLayer("Gpkg", [i \in 1..k |-> LayeredFile(i, counts[i])], layer)

\* files that open and whose tables all declare the same columns
Layered ==
    /\ format = "Gpkg"
    /\ \A i \in 1..Len(files) :
          /\ files[i].readable /\ files[i].has_contents
          /\ \A j \in 1..Len(files[i].tables) :
                files[i].tables[j].columns = GpkgTable(LayerNames[1], "ab", 1, 0).columns

\* the (file, layer) of every layer gpkg_contents lists, file after file
RECURSIVE ListedLayers(_)
ListedLayers(i) ==
    IF i > Len(files) THEN << >>
    ELSE [j \in 1..Len(files[i].contents) |-> << files[i].path, files[i].contents[j] >>]
         \o ListedLayers(i + 1)

HasTable(file, name) == \E j \in 1..Len(file.tables) : file.tables[j].table_name = name

SourceLayers == [i \in 1..Len(sources) |-> << sources[i].filename, sources[i].layer_name >>]

\* C16: without a layer parameter every GeoPackage file gives one data source per
\* layer gpkg_contents lists; with one, it gives exactly the named layer when the
\* file has it, and opening fails, with no data source, when it has not.
C16_LayerSelection ==
    (bind_state # "unbound" /\ Layered) =>
        /\ layer_param = NoLayer =>
              IF ListedLayers(1) = << >> THEN bind_state = "error"
              ELSE bind_state = "ok" /\ SourceLayers = ListedLayers(1)
        /\ (layer_param # NoLayer /\ \A i \in 1..Len(files) : HasTable(files[i], layer_param)) =>
              /\ bind_state = "ok"
              /\ SourceLayers = [i \in 1..Len(files) |-> << files[i].path, layer_param >>]
        /\ (layer_param # NoLayer /\ \E i \in 1..Len(files) : ~HasTable(files[i], layer_param)) =>
              bind_state = "error" /\ sources = << >>
        /\ \A i \in 1..Len(sources) : sources[i].column_specs # << >>

\* the second layer was asked for of a file with two layers: it is the one source
C16_Witness ==
    /\ bind_state = "ok"
    /\ Layered
    /\ layer_param = LayerNames[2]
    /\ Len(files) = 1
    /\ Len(files[1].tables) = 2
    /\ SourceLayers = << << 1, LayerNames[2] >> >>

-----------------------------------------------------------------------------
(* func called from several threads of the host *)

\* every variable but the lock and the threads
scan_vars ==
    << format, files, layer_param, bind_state, bind_error, sources, column_specs,
       result_columns, cursor, output, step_result, step_start, cursor_writes, reads,
       emitted, scan, wkb_in, wkb_out, steps >>

\* mutant: a lock that every thread gets at once
LockFree_Always(lock) == TRUE

\* lib.rs 193: `init_data.cursor.lock()` returns when no thread holds the guard
LockFree(lock) == lock.holder = 0

\* the arm of func for the bind data, run on the cursor `c` the guard gives
FuncOutcome(c) ==
    CASE format = "GeoJson" -> GeoJsonFunc(c, sources, column_specs)
      [] format = "Gpkg" -> GpkgFunc(c, sources)
      [] format = "Shapefile" -> ShapefileFunc(c, sources, column_specs)

\* the host calls func on thread t
Call(t) ==
    /\ CanStep
    /\ thread[t].pc = "idle"
    /\ thread' = [thread EXCEPT ![t] = [Idle EXCEPT !.pc = "waiting"]]
    /\ UNCHANGED << scan_vars, cursor_lock >>

\* lib.rs 193-194: lock() returns Ok(guard)
Acquire(t) ==
    /\ thread[t].pc = "waiting"
    /\ LockFree(cursor_lock)
    /\ ~cursor_lock.poisoned
    /\ cursor_lock' = [cursor_lock EXCEPT !.holder = t]
    /\ thread' = [thread EXCEPT ![t].pc = "locked"]
    /\ UNCHANGED scan_vars

\* lib.rs 195: lock() returns Err for a Mutex a panicking holder left; func returns
\* the error and the guard inside it is dropped, the cursor neither read nor written
AcquirePoisoned(t) ==
    /\ thread[t].pc = "waiting"
    /\ LockFree(cursor_lock)
    /\ cursor_lock.poisoned
    /\ thread' = [thread EXCEPT ![t] = [Idle EXCEPT !.result = "error"]]
    /\ step_result' = "error"
    /\ scan' = "failed"
    /\ UNCHANGED << format, files, layer_param, bind_state, bind_error, sources,
                    column_specs, result_columns, cursor, output, step_start,
                    cursor_writes, reads, emitted, wkb_in, wkb_out, steps, cursor_lock >>

\* lib.rs 204, 219, 279, 285, 390, 404: the arm reads source_idx and offset
\* through the guard
ReadCursor(t) ==
    /\ thread[t].pc = "locked"
    /\ thread' = [thread EXCEPT ![t].pc = "read", ![t].seen = cursor]
    /\ UNCHANGED << scan_vars, cursor_lock >>

\* the rest of the arm: rows written, cursor updated through the guard, set_len
Fill(t) ==
    /\ thread[t].pc = "read"
    /\ Delivered(thread[t].seen, FuncOutcome(thread[t].seen))
    /\ thread' = [thread EXCEPT ![t].pc = "filled",
                                ![t].result = FuncOutcome(thread[t].seen).result]
    /\ UNCHANGED cursor_lock

\* func returns or unwinds and the guard is dropped; a guard dropped while
\* panicking poisons the Mutex
Return(t) ==
    /\ thread[t].pc = "filled"
    /\ cursor_lock' = [holder |-> 0,
                       poisoned |-> cursor_lock.poisoned \/ thread[t].result = "panic"]
    /\ thread' = [thread EXCEPT ![t].pc = "idle"]
    /\ UNCHANGED scan_vars

\* a feature whose geometry geojson_to_wkb cannot convert, or that has none,
\* after `before` features that are converted
OddGeometryFile(path, before, geometry) ==
    [GeoJsonFile(path, "ab", 0) EXCEPT
        !.features = FeaturesAround(before, [Feature("ab") EXCEPT !.geometry = geometry],
                                    1, Feature("ab"))]

\* scans by several threads: files of one schema of which at most two have rows
\* and at most one has more than one; and one GeoJSON file with a feature on
\* which the step fails
ThreadInit ==
    \/ \E fmt \in Formats, shape \in FileShapes({"ab"}, RowCounts) :
          /\ Cardinality({i \in 1..Len(shape) : shape[i][2] > 0}) <= 2
          /\ Cardinality({i \in 1..Len(shape) : shape[i][2] > 1}) <= 1
          /\ InitWith(fmt, MakeFiles(fmt, shape, FALSE, 0))
    \/ \E before \in {0, 1, VECTOR_SIZE}, geometry \in {"none", "invalid"} :
          InitWith("GeoJson", << OddGeometryFile(1, before, geometry) >>)

ThreadNext ==
    \/ Bind
    \/ \E t \in Threads :
          \/ Call(t)
          \/ Acquire(t)
          \/ AcquirePoisoned(t)
          \/ ReadCursor(t)
          \/ Fill(t)
          \/ Return(t)

ThreadSpec == ThreadInit /\ [][ThreadNext]_vars

\* the threads between lock() and the drop of the guard
InFunc == {t \in Threads : thread[t].pc \in {"locked", "read", "filled"}}

\* the batches with rows that calls of func returned, in the order of the calls
Batches ==
    LET ok == SelectSeq(steps, LAMBDA st : st.result = "ok" /\ st.len > 0)
    IN  [i \in 1..Len(ok) |-> Read(ok[i].src, ok[i].lo, ok[i].len)]

\* one position before another, or the same
NotAfter(src1, lo1, src2, lo2) == src1 < src2 \/ (src1 = src2 /\ lo1 <= lo2)

\* C17: with func called from several threads, under every interleaving: at most
\* one thread is between lock() and the drop of the guard, and it holds the
\* lock; the cursor a thread read is still the cursor when that thread updates
\* it; the calls that read the cursor before its end form a chain from (0, 0),
\* each starting where the one before ended and ending where one call of func
\* from its start ends alone; no call reads the position a successful one read;
\* the batches hold disjoint rows in the order of the rows; and once the cursor
\* has ended with no call failed, the batches are, joined, all rows of all sources.
C17_MutualExclusion ==
    /\ Cardinality(InFunc) <= 1
    /\ \A t \in InFunc : cursor_lock.holder = t
    /\ InFunc = {} => cursor_lock.holder = 0
    /\ \A t \in Threads : thread[t].pc = "read" => thread[t].seen = cursor
    /\ steps # << >> => steps[1].start = NewCursor
    /\ \A i \in 1..Len(steps) :
          /\ steps[i].end = FuncOutcome(steps[i].start).cursor
          /\ i < Len(steps) => steps[i + 1].start = steps[i].end
          /\ i = Len(steps) => steps[i].end = cursor
          /\ \A j \in (i + 1)..Len(steps) :
                steps[i].result = "ok" => steps[j].start # steps[i].start
    /\ \A i \in 1..(Len(Batches) - 1) :
          NotAfter(Batches[i].src, Batches[i].lo + Batches[i].len,
                   Batches[i + 1].src, Batches[i + 1].lo)
    /\ (bind_state = "ok" /\ cursor.source_idx = Len(sources)
          /\ \A i \in 1..Len(steps) : steps[i].result = "ok")
        => (Joined(Batches) = AllRows /\ RowCount(Batches) = RowCount(AllRows))

\* two threads were in func at the same time, one waiting for the lock while the
\* other held it, and the scan went through two sources to the end
C17_Witness ==
    /\ Len(steps) >= 3
    /\ cursor.source_idx = Len(sources)
    /\ Len(sources) >= 2
    /\ \E t \in Threads : thread[t].pc = "filled" /\ thread[t].seen = steps[Len(steps)].start
    /\ \E u \in Threads : thread[u].pc = "waiting"
    /\ RowCount(Batches) > VECTOR_SIZE

-----------------------------------------------------------------------------
(* The end of a scan *)

\* scans of files on which no step fails
LiveInit ==
    \E fmt \in Formats, shape \in FileShapes({"ab"}, RowCounts) :
        /\ Cardinality({i \in 1..Len(shape) : shape[i][2] > 1}) <= 1
        /\ InitWith(fmt, MakeFiles(fmt, shape, FALSE, 0))

\* the host calls func from one thread, one call at a time; no Mutex is poisoned
\* where no step panics
LiveNext ==
    \/ Bind
    \/ Call(1)
    \/ Acquire(1)
    \/ ReadCursor(1)
    \/ Fill(1)
    \/ Return(1)

\* the host goes on calling func (DuckDB pulls chunks from a table function until
\* the query is done), lock() returns when the Mutex is free, and a call that
\* holds the guard runs to its return. Fill(1) is enabled exactly when the thread
\* has read the cursor, so the last conjunct is WF_vars(Fill(1)) with ENABLED
\* written out.
LiveSpec ==
    /\ LiveInit
    /\ [][LiveNext]_vars
    /\ WF_vars(Call(1))
    /\ WF_vars(Acquire(1))
    /\ WF_vars(ReadCursor(1))
    /\ WF_vars(Return(1))
    /\ []<>(thread[1].pc # "read")

\* one cursor strictly before another: an earlier source, or the same source and
\* a smaller offset
Before(c, d) ==
    \/ c.source_idx < d.source_idx
    \/ (c.source_idx = d.source_idx /\ c.offset < d.offset)

\* the host got an empty batch from a step that found the cursor at the end
EndOfScan ==
    /\ cursor.source_idx = Len(sources)
    /\ step_start.source_idx = Len(sources)
    /\ step_result = "ok"
    /\ output.len = 0

-----------------------------------------------------------------------------
(* The schema of a GeoPackage layer *)

\* the names a table gives its INTEGER PRIMARY KEY column
KeyNames == {"fid", "id"}

\* a table without rows declared (key INTEGER PRIMARY KEY, geom POINT, <name> <type>)
KeyedTable(key, name, type) ==
    [table_name |-> LayerNames[1], primary_key |-> key,
     columns |-> << [name |-> key, type |-> "INTEGER"], [name |-> "geom", type |-> "POINT"],
                    [name |-> name, type |-> type] >>,
     rows |-> << >>]

\* one file with one such table, its third column declared with every type name
\* in upper and in lower case, and named val1 or, where the key is not, fid
KeyedInit ==
    \E key \in KeyNames, name \in {"val1", "fid"}, i \in 1..Len(SqlTypeNames),
       lower \in BOOLEAN :
        /\ name # key
        /\ InitWith("Gpkg",
                    << GpkgFile(1, << KeyedTable(key, name,
                                                 IF lower THEN LowerCased[i]
                                                 ELSE SqlTypeNames[i]) >>) >>)

\* one readable file with one listed layer, read without a layer parameter
OneLayer ==
    /\ format = "Gpkg"
    /\ Len(files) = 1
    /\ files[1].readable /\ files[1].has_contents
    /\ Len(files[1].tables) = 1
    /\ files[1].contents = << files[1].tables[1].table_name >>
    /\ layer_param = NoLayer

\* a declared type without regard to letter case
SameType(declared, name) ==
    \E i \in 1..Len(SqlTypeNames) :
        /\ SqlTypeNames[i] = name
        /\ declared \in {SqlTypeNames[i], LowerCased[i]}

OneOf(declared, names) == \E name \in names : SameType(declared, name)

\* the mapping of a declared type as the claim lists it
DeclaredColumnType(declared) ==
    CASE OneOf(declared, {"TINYINT", "SMALLINT", "MEDIUMINT", "INT", "INTEGER"}) -> "Integer"
      [] OneOf(declared, {"DOUBLE", "FLOAT", "REAL"}) -> "Double"
      [] OneOf(declared, {"TEXT"}) -> "Varchar"
      [] OneOf(declared, {"BOOLEAN"}) -> "Boolean"
      [] OneOf(declared, {"GEOMETRY", "POINT", "LINESTRING", "POLYGON", "MULTIPOINT",
                          "MULTILINESTRING", "MULTIPOLYGON", "GEOMETRYCOLLECTION"}) -> "Geometry"
      [] OTHER -> "none"

\* the declared columns of a table without its primary key column
WithoutKey(table) == SelectSeq(table.columns, LAMBDA c : c.name # table.primary_key)

\* C19: the schema of a GeoPackage layer is the table's declared columns without
\* its primary key column, whatever its name, in the declared order, each type
\* mapped without regard to letter case as listed; with a column of any other
\* declared type, schema inference fails and so does bind.
C19_GpkgSchema ==
    (OneLayer /\ bind_state # "unbound")
        => LET kept == WithoutKey(files[1].tables[1])
           IN  IF \E i \in 1..Len(kept) : DeclaredColumnType(kept[i].type) = "none"
               THEN bind_state = "error"
               ELSE /\ bind_state = "ok"
                    /\ Len(sources) = 1
                    /\ sources[1].column_specs =
                           [i \in 1..Len(kept) |->
                              ColumnSpec(kept[i].name, DeclaredColumnType(kept[i].type))]

-----------------------------------------------------------------------------
(* The encoding hint of a shapefile *)

\* labels no arm of the match holds
OtherLabels ==
    << << "U", "T", "F", "8" >>, << "E", "U", "C", "-", "J", "P" >>,
       << "I", "S", "O", "-", "8", "8", "5", "9", "-", "1", "1" >>, << >> >>

\* char::to_ascii_lowercase
CharToAsciiLowercase(c) ==
    IF \E i \in 1..Len(UpperLetters) : UpperLetters[i] = c
    THEN LowerLetters[CHOOSE i \in 1..Len(UpperLetters) : UpperLetters[i] = c]
    ELSE c

ToAsciiLowercase(s) == [i \in 1..Len(s) |-> CharToAsciiLowercase(s[i])]

\* the labels written in hint files: those of the arms and the others, as they
\* are, in upper case and in lower case
WrittenLabels ==
    LET given == {LabelTable[i].label : i \in 1..Len(LabelTable)}
                    \cup {OtherLabels[i] : i \in 1..Len(OtherLabels)}
    IN  given \cup {ToAsciiUppercase(l) : l \in given} \cup {ToAsciiLowercase(l) : l \in given}

\* what stands before and after the label in a hint file
Paddings ==
    { << << >>, << >> >>, << << >>, << "<lf>" >> >>, << << Bom >>, << "<cr>", "<lf>" >> >>,
      << << "<sp>", Bom >>, << "<tab>" >> >>, << << Bom, "<sp>" >>, << >> >> }

CpgFile(readable, content) == [exists |-> TRUE, readable |-> readable, content |-> content]

\* one shapefile of one record: with a hint file holding a padded label, with a
\* hint file that cannot be read as UTF-8, and without one
CpgInit ==
    \/ \E label \in WrittenLabels, pad \in Paddings :
          InitWith("Shapefile",
                   << [ShapefileFile(1, "ab", 1) EXCEPT
                          !.cpg = CpgFile(TRUE, pad[1] \o label \o pad[2])] >>)
    \/ InitWith("Shapefile",
                << [ShapefileFile(1, "ab", 1) EXCEPT
                       !.cpg = CpgFile(FALSE, << "U", "T", "F", "-", "8" >>)] >>)
    \/ InitWith("Shapefile", << ShapefileFile(1, "ab", 1) >>)

\* two strs equal without regard to the case of their ASCII letters
SameIgnoringCase(a, b) == ToAsciiLowercase(a) = ToAsciiLowercase(b)

\* the content of a hint file, trimmed and without a leading BOM
Stripped(content) ==
    LET trimmed == Trim(content)
    IN  IF trimmed # << >> /\ Head(trimmed) = Bom THEN Tail(trimmed) ELSE trimmed

\* the arms whose label the content of a hint file holds
ArmsFor(content) ==
    {i \in 1..Len(LabelTable) : SameIgnoringCase(Stripped(content), LabelTable[i].label)}

\* one shapefile that opens, bound
OneShapefile ==
    /\ format = "Shapefile"
    /\ Len(files) = 1
    /\ files[1].readable
    /\ \A i \in 1..Len(files[1].records) : files[1].records[i].row.shape # "Unconvertible"
    /\ bind_state # "unbound"

\* C20: the encoding of a shapefile is inferred from its hint file: the content
\* trimmed, without a leading BOM and matched without regard to letter case
\* against the labels of the table selects the encoding of the label's arm, and
\* the .dbf is read with it; without a hint file, with one that cannot be read,
\* or with any other label the encoding is None and the .dbf is read with the
\* default decoder; bind succeeds in every case.
C20_EncodingInferred ==
    OneShapefile
        => /\ bind_state = "ok"
           /\ Len(sources) = 1
           /\ LET cpg == files[1].cpg
                  arms == IF cpg.exists /\ cpg.readable THEN ArmsFor(cpg.content) ELSE {}
              IN  IF arms = {}
                  THEN /\ ~sources[1].inferred_cpg_encoding.some
                       /\ sources[1].decoder = "default"
                  ELSE /\ sources[1].inferred_cpg_encoding.some
                       /\ \A i \in arms :
                             /\ sources[1].inferred_cpg_encoding.value = LabelTable[i].encoding
                             /\ sources[1].decoder = LabelTable[i].encoding

-----------------------------------------------------------------------------
(* The transition of one step *)

\* the last step started before the end and returned Ok
StepDone ==
    /\ Stepped
    /\ step_result = "ok"
    /\ step_start.source_idx < Len(sources)

\* the rows of the source of cursor c from its offset on
RowsLeft(c) == SourceLen(sources[c.source_idx + 1]) - c.offset

CursorAt(source_idx, offset) == [source_idx |-> source_idx, offset |-> offset]

\* the chunk holds the rows lo .. lo + len - 1 of source src
Returned(src, lo, len) ==
    /\ output.len = len
    /\ len > 0 => (output.src = src /\ output.lo = lo)

\* the step took the rest of the source of c, fewer than VECTOR_SIZE rows
TookRest(c) ==
    /\ cursor = CursorAt(c.source_idx + 1, 0)
    /\ Returned(c.source_idx, c.offset, RowsLeft(c))

\* the step took VECTOR_SIZE rows of the source of c and stays on it
TookFullBatch(c) ==
    /\ cursor = CursorAt(c.source_idx, c.offset + VECTOR_SIZE)
    /\ Returned(c.source_idx, c.offset, VECTOR_SIZE)

\* the first source from index i on that has rows; the number of sources if none
RECURSIVE NextWithRows(_)
NextWithRows(i) ==
    IF i >= Len(sources) THEN Len(sources)
    ELSE IF SourceLen(sources[i + 1]) > 0 THEN i
    ELSE NextWithRows(i + 1)

\* the step of the GeoPackage arm from the start of source i
GpkgTook(i) ==
    IF i >= Len(sources) THEN cursor = CursorAt(Len(sources), 0) /\ output.len = 0
    ELSE IF RowsLeft(CursorAt(i, 0)) < VECTOR_SIZE THEN TookRest(CursorAt(i, 0))
    ELSE TookFullBatch(CursorAt(i, 0))

\* C21 as stated: in every format a step from (i, o) that reads fewer than
\* VECTOR_SIZE rows up to the end of source i, zero rows included, leaves the
\* cursor at (i + 1, 0) and returns those rows; one that reads VECTOR_SIZE rows
\* with more rows after them leaves (i, o + VECTOR_SIZE) and returns the batch.
C21_StepRule_AsStated ==
    StepDone
        => /\ (RowsLeft(step_start) >= 0 /\ RowsLeft(step_start) < VECTOR_SIZE)
                => TookRest(step_start)
           /\ RowsLeft(step_start) > VECTOR_SIZE => TookFullBatch(step_start)

\* C21: a GeoJSON or Shapefile step from (i, o) takes the rest of source i and
\* leaves (i + 1, 0) when at most VECTOR_SIZE rows are left, zero included, and
\* a full batch leaving (i, o + VECTOR_SIZE) when more are left. A GeoPackage
\* step takes a full batch and leaves (i, o + VECTOR_SIZE) when VECTOR_SIZE rows
\* or more are left, takes the rest and leaves (i + 1, 0) when between 1 and
\* VECTOR_SIZE - 1 are left, and when none is left sets the cursor to (i + 1, 0)
\* and goes on in the same step, taking its batch from the first later source
\* that has rows, or returning no row with the cursor at the end.
C21_StepRule ==
    StepDone
        => IF format = "Gpkg"
           THEN CASE RowsLeft(step_start) >= VECTOR_SIZE -> TookFullBatch(step_start)
                  [] RowsLeft(step_start) \in 1..(VECTOR_SIZE - 1) -> TookRest(step_start)
                  [] RowsLeft(step_start) = 0 ->
                        /\ cursor_writes[1] = CursorAt(step_start.source_idx + 1, 0)
                        /\ GpkgTook(NextWithRows(step_start.source_idx + 1))
                  [] OTHER -> FALSE
           ELSE CASE RowsLeft(step_start) > VECTOR_SIZE -> TookFullBatch(step_start)
                  [] RowsLeft(step_start) \in 0..VECTOR_SIZE ->
                        /\ cursor = CursorAt(step_start.source_idx + 1, 0)
                        /\ Returned(step_start.source_idx, step_start.offset,
                                    RowsLeft(step_start))
                  [] OTHER -> FALSE

\* a GeoPackage step that found no row left in its source and returned rows of
\* the source after the next
C21_Witness ==
    /\ StepDone
    /\ format = "Gpkg"
    /\ RowsLeft(step_start) = 0
    /\ output.len > 0
    /\ output.src = step_start.source_idx + 2
    /\ Len(cursor_writes) = 3

-----------------------------------------------------------------------------
(* Steps that return an error *)

\* a row of a table of the columns (geom, val1 DOUBLE, val2 TEXT) whose val1
\* holds a text: row.get::<Option<f64>> returns an error for it
UnreadableRow ==
    [i \in 1..Len(GpkgTableRow("ab", 0)) |->
        IF i = 2 THEN Stored("text", 1, << >>) ELSE GpkgTableRow("ab", 0)[i]]

\* a table of `before` rows that are read and then one that is not
UnreadableTable(before) ==
    [GpkgTable(LayerNames[1], "ab", 0, 0) EXCEPT
        !.rows = Runs(before, GpkgTableRow("ab", 0)) \o Runs(1, UnreadableRow)]

\* sources that are read through and then one on which a step returns an
\* error: GeoPackage tables without rows and then one with an unreadable row,
\* GeoJSON files of one feature and then one with a geometry that cannot be
\* converted
FailingInit ==
    \E empties \in 0..(MaxFiles - 1), before \in {0, 1, VECTOR_SIZE} :
        \/ InitWith("Gpkg",
                    [i \in 1..(empties + 1) |->
                        IF i <= empties
                        THEN GpkgFile(i, << GpkgTable(LayerNames[1], "ab", 0, 0) >>)
                        ELSE GpkgFile(i, << UnreadableTable(before) >>)])
        \/ InitWith("GeoJson",
                    [i \in 1..(empties + 1) |->
                        IF i <= empties THEN GeoJsonFile(i, "ab", 1)
                        ELSE OddGeometryFile(i, before, "invalid")])

\* C22: a step that returns an error leaves the cursor as it found it, in every
\* format, also a GeoPackage step that went past sources without rows before it
\* failed.
C22_ErrorLeavesCursor ==
    (Stepped /\ step_result = "error") => cursor = step_start

-----------------------------------------------------------------------------
(* GeoJSON values of another kind than their column *)

\* two files of the columns (val1 Double, val2 Varchar): the second holds, after
\* `before` features with a number in val1, one with a string in it, inside the
\* sample of its file or behind it
MixedKindInit ==
    \E before \in {1, SampleSize - 1, SampleSize} :
        InitWith("GeoJson",
                 << [GeoJsonFile(1, "none", 0) EXCEPT
                        !.features = << [n |-> 1, row |-> KindFeature("A")] >>],
                    [GeoJsonFile(2, "none", 0) EXCEPT
                        !.features = << [n |-> before, row |-> KindFeature("A")],
                                        [n |-> 1, row |-> KindFeature("B")] >>] >>)

\* every feature of every file has a geometry that convert turns into WKB
GeometriesConvert ==
    \A i \in 1..Len(files) : \A j \in 1..Len(files[i].features) :
        convert(files[i].features[j].row).status = "ok"

\* C23: in a GeoJSON scan a non-null property value of another JSON kind than
\* the inferred type of its column, in whatever feature of whatever file, never
\* makes the step panic: the step writes the value, marks the cell NULL, or
\* returns an error.
C23_KindMismatchNoPanic ==
    (format = "GeoJson" /\ Stepped /\ GeometriesConvert) => step_result # "panic"

-----------------------------------------------------------------------------
(* GeoPackage geometry blobs shorter than their header *)

\* the slices of b that reach to its end, the empty one at Len(b) among them
SuffixOf(b, slice) ==
    \E start \in 0..Len(b) : slice = SubSeq(b, start + 1, Len(b))

\* C24: gpkg_geometry_to_wkb never reads outside its input: of every byte
\* string, one shorter than 4 bytes and one shorter than 8 + envelope_size
\* bytes too, it returns a slice of the input, possibly empty, and does not
\* panic.
C24_WkbInBounds ==
    wkb_out.called =>
        /\ ~wkb_out.result.panic
        /\ SuffixOf(wkb_in, wkb_out.result.bytes)

-----------------------------------------------------------------------------
(* GeoPackage integers *)

\* the 16-bit limbs the stored integers are made of: 0x0000, 0x0001, 0x7FFF,
\* 0x8000, 0xFFFF; four of them make 0, 1, -1, 2^31 - 1, -2^31, 2^31,
\* -2^31 - 1, 2^32, 2^63 - 1, -2^63 and the values between
LimbValues == {0, 1, 32767, 32768, 65535}

\* a table (fid, geom POINT, val1 INTEGER) of one row that stores v in val1
IntegerTable(v) ==
    [table_name |-> LayerNames[1], primary_key |-> "fid",
     columns |-> << [name |-> "fid", type |-> "INTEGER"], [name |-> "geom", type |-> "POINT"],
                    [name |-> "val1", type |-> "INTEGER"] >>,
     rows |-> Runs(1, << GpkgTableRow("none", 0)[1], Stored("integer", 0, v) >>)]

IntegerInit ==
    \E v \in [1..4 -> LimbValues] :
        InitWith("Gpkg", << GpkgFile(1, << IntegerTable(v) >>) >>)

\* the 64-bit integer of the same value as a 32-bit one: its sign extension
I32AsI64(limbs) ==
    limbs \o (IF limbs[2] >= 32768 THEN << 65535, 65535 >> ELSE << 0, 0 >>)

\* C25: every non-null value of a GeoPackage Integer column is emitted with the
\* numeric value that is stored, for every 64-bit value, those outside
\* [-2^31, 2^31 - 1] too: none is emitted changed by a wrap modulo 2^32.
C25_IntegerExact ==
    (Stepped /\ format = "Gpkg" /\ step_result = "ok" /\ output.len > 0) =>
        \A k \in 1..Len(RowsRead) : \A i \in 1..Len(column_specs) :
            (column_specs[i].column_type = "Integer" /\ RowsRead[k].row[i].kind = "integer") =>
                /\ output.cells[k].row.props[i].state = "value"
                /\ I32AsI64(output.cells[k].row.props[i].v.bytes) = RowsRead[k].row[i].bytes

-----------------------------------------------------------------------------
(* The offset at the start of a step *)

\* the cursor c is on a source, at a multiple of VECTOR_SIZE that is 0 or lies
\* before the end of the source, so that c.offset..range_end is a range of it
OffsetInSource(c) ==
    c.source_idx < Len(sources) =>
        LET len == SourceLen(sources[c.source_idx + 1])
            range_end == RangeEnd(c.offset, len)
        IN  /\ c.offset % VECTOR_SIZE = 0
            /\ c.offset = 0 \/ c.offset < len
            /\ c.offset <= range_end
            /\ range_end <= len

\* C26: in GeoJSON and Shapefile scans, at the start of every step with
\* source_idx < len(sources), the offset is a multiple of VECTOR_SIZE and is 0
\* or less than the row count of the source; hence offset <= range_end <= row
\* count, and the slice rows[offset..range_end] is in bounds. The cursor of
\* every state is where the next step starts; step_start is where the last one
\* started.
C26_OffsetInBounds ==
    (format \in {"GeoJson", "Shapefile"} /\ bind_state = "ok") =>
        /\ OffsetInSource(cursor)
        /\ Stepped => OffsetInSource(step_start)

\* a step of a Shapefile scan started behind the first full batch of its source
\* and read the rest of it
C26_Witness ==
    /\ format = "Shapefile"
    /\ Stepped
    /\ step_result = "ok"
    /\ step_start.offset = VECTOR_SIZE
    /\ output.len = SourceLen(sources[step_start.source_idx + 1]) - VECTOR_SIZE
    /\ output.len > 0
    /\ cursor = CursorAt(step_start.source_idx + 1, 0)

-----------------------------------------------------------------------------
(* The scans of the files above *)

EdgeInit ==
    \/ DefectInit
    \/ NoGeometryInit
    \/ SampleInit
    \/ UnsupportedInit
    \/ LayerInit
    \/ KeyedInit
    \/ CpgInit
    \/ FailingInit
    \/ MixedKindInit
    \/ IntegerInit

EdgeSpec == EdgeInit /\ [][Next]_vars

====
